---- MODULE Spec2Model ----
(***************************************************************************)
(* A model of the exoTM step / orec / epoch runtime, of the slist_omap     *)
(* ordered map built on it, and of the ticket-lock search tree.            *)
(*                                                                         *)
(* The specifications of the module share its variables:                   *)
(*   SpecOrec  - write/read steps of several threads on a set of orecs     *)
(*   SpecRace  - threads racing to acquire one orec at one version         *)
(*   SpecEpoch - IrrevocQuiesceEpochManager: epoch table, token, quiesce   *)
(*               and the deferred reclamation that uses quiesce            *)
(*   SpecToken - the token alone: tryIrrevoc, onCommitIrrevoc, onBegin     *)
(*   SpecIds   - construction of more managers than MAXTHREADS             *)
(*   SpecQuiesce - quiesce called with any time, in or outside a step     *)
(*   SpecList  - slist_omap get / insert / remove, statement by statement  *)
(*   SpecResume - the same list with a walker passing a writer's nodes,   *)
(*               taking snapshots and resuming from them                   *)
(*   SpecTokenFair - SpecToken with threads that keep being scheduled      *)
(*   SpecWait, SpecWaitFair - tryIrrevoc and quiesce called inside and     *)
(*               outside steps, without and with fair scheduling           *)
(*   SpecRetry - the list, with the history of retries and of solo runs    *)
(*   SpecGet   - the list with get on its read-step or write-step path     *)
(*   SpecRemove - the list, with the history of two contending removes     *)
(*   SpecPush  - CCSTMEpochManager: construction and walks of the list     *)
(*   SpecTicket - the ticket lock under insert_internal, full 16-bit width *)
(*   SpecUnlink - the search tree: insert_internal and remove_internal     *)
(*                                                                         *)
(* The step wrappers (Step, RStep, WStep), the epoch managers and the list *)
(* are translated from the sources.  The orec primitives behind            *)
(* `op->exo` and the reclamation pool behind `op->smr` are not part of     *)
(* the sources; they follow the written specification (sections 4.1, 4.2   *)
(* and 4.5) and carry the prefix exo_ / smr_.                              *)
(***************************************************************************)
EXTENDS Integers, Sequences, FiniteSets, TLC

VARIABLES
  pc,        \* per thread: where the thread is
  orec,      \* per object: the ownership record, [lk, val]
  locks,     \* per thread: the orecs the live step acquired, with the version before
  start,     \* per thread: published start time of the live step, END_OF_TIME when none
  clock,     \* the logical clock
  snap,      \* SpecOrec: per thread, the (object, version) pair it captured
  act,       \* the last operation performed: [name, t, o, ok, n]
  hist,      \* history (ghost) record used by the properties only
  nsteps,    \* per thread: number of steps / operations begun so far
  g,         \* SpecEpoch: the epoch manager's Globals [idGenerator, epochs, token]
  mgr,       \* SpecEpoch: per thread, its epoch manager [id, hasToken]
  frame,     \* per thread: the locals of the call it is executing
  smr,       \* the reclamation pool [pending, pool, destroyed]
  mem        \* the nodes of the list, [key, val, next], or of the tree

vars == <<pc, orec, locks, start, clock, snap, act, hist, nsteps,
          g, mgr, frame, smr, mem>>

\* the epoch manager, call frames, reclamation pool and list nodes, which
\* steps on bare orecs leave alone
xvars == <<g, mgr, frame, smr, mem>>
\* the orec runtime and the list nodes, which the epoch manager leaves alone
ovars == <<orec, locks, start, snap, act, mem>>

----------------------------------------------------------------------------
(* Bounds of the model *)

\* steps a thread of SpecOrec may begin
MaxSteps == 1
\* largest value of the logical clock
MaxTime == 1

\* threads and objects of SpecOrec and SpecRace
Threads == {1, 2, 3}
Objs == {"a", "b"}

\* the all-ones unsigned word: the sentinel check_orec returns, and the start
\* time of a thread with no live step
END_OF_TIME == 2^8 - 1
NoThread == 0
Versions == 0..(Cardinality(Threads) * MaxSteps)

----------------------------------------------------------------------------
(* The ownership record: unlocked at a version, or locked by a thread *)

Unlocked(v) == [lk |-> FALSE, val |-> v]
Locked(t) == [lk |-> TRUE, val |-> t]

\* the objects a thread's live step holds
Held(t) == {l.obj : l \in locks[t]}

\* what an exo operation leaves behind: its result and the new runtime state
ExoState(ok, o, l, s) == [ok |-> ok, orec |-> o, locks |-> l, start |-> s]

\* 4.1 check: the version if unlocked, END_OF_TIME if locked by anyone
exo_check_orec(o) == IF orec[o].lk THEN END_OF_TIME ELSE orec[o].val

\* 4.2 check_continuation: the orec still equals the expected version
exo_check_continuation(o, val) == orec[o] = Unlocked(val)

\* 4.1 acquire_if_version: unlocked @ expected -> locked by me, else no effect
exo_acquire_continuation(t, o, val) ==
  IF orec[o] = Unlocked(val)
  THEN ExoState(TRUE, [orec EXCEPT ![o] = Locked(t)],
                [locks EXCEPT ![t] = @ \cup {[obj |-> o, prev |-> val]}], start)
  ELSE ExoState(FALSE, orec, locks, start)

\* 4.2 acquire_consistent: lock iff the current version is <= the start time
exo_acquire_consistent(t, o) ==
  IF ~orec[o].lk /\ orec[o].val <= start[t]
  THEN ExoState(TRUE, [orec EXCEPT ![o] = Locked(t)],
                [locks EXCEPT ![t] = @ \cup {[obj |-> o, prev |-> orec[o].val]}], start)
  ELSE ExoState(FALSE, orec, locks, start)

\* 4.1 acquire_unconditional: lock whatever the version; an orec another
\* thread holds cannot be taken, one the caller holds already stays held
exo_acquire_aggressive(t, o) ==
  IF ~orec[o].lk
  THEN ExoState(TRUE, [orec EXCEPT ![o] = Locked(t)],
                [locks EXCEPT ![t] = @ \cup {[obj |-> o, prev |-> orec[o].val]}], start)
  ELSE ExoState(orec[o] = Locked(t), orec, locks, start)

\* 4.1 release_revert for every orec held; 4.2 unwind also clears the publication
exo_unwind(t) ==
  ExoState(TRUE,
           [o \in DOMAIN orec |->
              IF o \in Held(t)
              THEN Unlocked((CHOOSE l \in locks[t] : l.obj = o).prev)
              ELSE orec[o]],
           [locks EXCEPT ![t] = {}],
           [start EXCEPT ![t] = END_OF_TIME])

\* 4.1 release_advance for every orec still held; the publication is cleared
exo_wo_end(t) ==
  ExoState(TRUE,
           [o \in DOMAIN orec |->
              IF o \in Held(t)
              THEN Unlocked((CHOOSE l \in locks[t] : l.obj = o).prev + 1)
              ELSE orec[o]],
           [locks EXCEPT ![t] = {}],
           [start EXCEPT ![t] = END_OF_TIME])

\* 4.2 construction: the step publishes the current logical time
exo_ro_begin(t) == ExoState(TRUE, orec, locks, [start EXCEPT ![t] = clock])
exo_wo_begin(t) == ExoState(TRUE, orec, locks, [start EXCEPT ![t] = clock])
\* 4.2 destruction of a read-step: the publication is cleared
exo_ro_end(t) == ExoState(TRUE, orec, locks, [start EXCEPT ![t] = END_OF_TIME])

----------------------------------------------------------------------------
(* The RAII step wrappers: each forwards to the thread descriptor's exo *)

\* a check_continuation that only looks at the lock bit
Step_check_continuation_lockbit(o, val) == ~orec[o].lk
Step_check_continuation(o, val) == exo_check_continuation(o, val)

\* a check_orec that returns the orec's word without testing the lock
Step_check_orec_word(o) == orec[o].val
Step_check_orec(o) == exo_check_orec(o)

RStep_ctor(t) == exo_ro_begin(t)
\* a read-step destructor that leaves the publication in place
RStep_dtor_keep(t) == ExoState(TRUE, orec, locks, start)
RStep_dtor(t) == exo_ro_end(t)
WStep_ctor(t) == exo_wo_begin(t)
\* a destructor that releases the way unwind does
WStep_dtor_revert(t) == exo_unwind(t)
\* a destructor that releases every orec at the start time of the step
WStep_dtor_stamp(t) ==
  ExoState(TRUE,
           [o \in DOMAIN orec |-> IF o \in Held(t) THEN Unlocked(start[t]) ELSE orec[o]],
           [locks EXCEPT ![t] = {}],
           [start EXCEPT ![t] = END_OF_TIME])
WStep_dtor(t) == exo_wo_end(t)

\* an acquire_continuation that swaps the lock in and compares afterwards
WStep_acquire_continuation_exchange(t, o, val) ==
  ExoState(orec[o] = Unlocked(val), [orec EXCEPT ![o] = Locked(t)],
           IF orec[o] = Unlocked(val)
           THEN [locks EXCEPT ![t] = @ \cup {[obj |-> o, prev |-> val]}]
           ELSE locks,
           start)
\* an acquire_continuation that validates the version and takes no lock
WStep_acquire_continuation_validate(t, o, val) ==
  ExoState(orec[o] = Unlocked(val), orec, locks, start)
\* an acquire_continuation that forwards to the unconditional acquire
WStep_acquire_continuation_anyversion(t, o, val) == exo_acquire_aggressive(t, o)
WStep_acquire_continuation(t, o, val) == exo_acquire_continuation(t, o, val)

\* an acquire_consistent that does not look at the start time
WStep_acquire_consistent_anytime(t, o) == exo_acquire_aggressive(t, o)
WStep_acquire_consistent(t, o) == exo_acquire_consistent(t, o)

\* an acquire_aggressive that takes the orec from whoever holds it
WStep_acquire_aggressive_steal(t, o) ==
  ExoState(TRUE, [orec EXCEPT ![o] = Locked(t)],
           [locks EXCEPT ![t] = @ \cup {[obj |-> o, prev |-> 0]}], start)
WStep_acquire_aggressive(t, o) == exo_acquire_aggressive(t, o)

\* an unwind that releases the way the destructor does
WStep_unwind_advance(t) == exo_wo_end(t)
\* an unwind that reverts the orecs and keeps the step's list of them
WStep_unwind_keep(t) ==
  ExoState(TRUE, exo_unwind(t).orec, locks, exo_unwind(t).start)
WStep_unwind(t) == exo_unwind(t)

----------------------------------------------------------------------------
(* Steps on orecs: the operations a thread performs through a step.  Each  *)
(* action leaves the ghost record `hist` to the specification using it.    *)

NoSnap == [obj |-> "none", ver |-> 0]
\* the last operation: its name, thread, object, result, and (for a release)
\* the number of orecs released
Act(name, t, o, ok, n) == [name |-> name, t |-> t, o |-> o, ok |-> ok, n |-> n]
NoAct == Act("init", NoThread, "none", FALSE, 0)

Apply(r) == orec' = r.orec /\ locks' = r.locks /\ start' = r.start

InStep(t) == pc[t] \in {"rstep", "wstep"}

\* the clock source advances
Tick ==
  /\ clock < MaxTime
  /\ clock' = clock + 1
  /\ UNCHANGED <<pc, orec, locks, start, snap, act, hist, nsteps, xvars>>

RBegin(t) ==
  /\ pc[t] = "idle" /\ nsteps[t] < MaxSteps
  /\ Apply(RStep_ctor(t))
  /\ pc' = [pc EXCEPT ![t] = "rstep"]
  /\ nsteps' = [nsteps EXCEPT ![t] = @ + 1]
  /\ act' = Act("ro_begin", t, "none", TRUE, 0)
  /\ UNCHANGED <<clock, snap, xvars>>

WBegin(t) ==
  /\ pc[t] = "idle" /\ nsteps[t] < MaxSteps
  /\ Apply(WStep_ctor(t))
  /\ pc' = [pc EXCEPT ![t] = "wstep"]
  /\ nsteps' = [nsteps EXCEPT ![t] = @ + 1]
  /\ act' = Act("wo_begin", t, "none", TRUE, 0)
  /\ UNCHANGED <<clock, snap, xvars>>

\* check_orec; a usable result is kept as the thread's snapshot of o
CheckOrec(t, o) ==
  /\ InStep(t)
  /\ LET r == Step_check_orec(o) IN
       /\ snap' = [snap EXCEPT ![t] =
                     IF r = END_OF_TIME THEN @ ELSE [obj |-> o, ver |-> r]]
       /\ act' = Act("check_orec", t, o, r # END_OF_TIME, 0)
  /\ UNCHANGED <<pc, orec, locks, start, clock, nsteps, xvars>>

\* check_continuation on the snapshot
CheckContinuation(t) ==
  /\ InStep(t) /\ snap[t] # NoSnap
  /\ act' = Act("check_continuation", t, snap[t].obj,
                Step_check_continuation(snap[t].obj, snap[t].ver), 0)
  /\ UNCHANGED <<pc, orec, locks, start, clock, snap, nsteps, xvars>>

\* acquire_continuation on the snapshot
AcquireContinuation(t) ==
  /\ pc[t] = "wstep" /\ snap[t] # NoSnap
  /\ LET r == WStep_acquire_continuation(t, snap[t].obj, snap[t].ver) IN
       /\ Apply(r)
       /\ act' = Act("acquire_continuation", t, snap[t].obj, r.ok, 0)
  /\ UNCHANGED <<pc, clock, snap, nsteps, xvars>>

AcquireConsistent(t, o) ==
  /\ pc[t] = "wstep"
  /\ LET r == WStep_acquire_consistent(t, o) IN
       /\ Apply(r)
       /\ act' = Act("acquire_consistent", t, o, r.ok, 0)
  /\ UNCHANGED <<pc, clock, snap, nsteps, xvars>>

AcquireAggressive(t, o) ==
  /\ pc[t] = "wstep"
  /\ LET r == WStep_acquire_aggressive(t, o) IN
       /\ Apply(r)
       /\ act' = Act("acquire_aggressive", t, o, r.ok, 0)
  /\ UNCHANGED <<pc, clock, snap, nsteps, xvars>>

\* unwind; the step object stays in scope until its destructor runs
Unwind(t) ==
  /\ pc[t] \in {"wstep", "unwound"}
  /\ Apply(WStep_unwind(t))
  /\ pc' = [pc EXCEPT ![t] = "unwound"]
  /\ act' = Act("unwind", t, "none", TRUE, Cardinality(Held(t)))
  /\ UNCHANGED <<clock, snap, nsteps, xvars>>

REnd(t) ==
  /\ pc[t] = "rstep"
  /\ Apply(RStep_dtor(t))
  /\ pc' = [pc EXCEPT ![t] = "idle"]
  /\ act' = Act("ro_end", t, "none", TRUE, 0)
  /\ UNCHANGED <<clock, snap, nsteps, xvars>>

\* the destructor of a write step: whatever is still held is committed
WEnd(t) ==
  /\ pc[t] \in {"wstep", "unwound"}
  /\ Apply(WStep_dtor(t))
  /\ pc' = [pc EXCEPT ![t] = "idle"]
  /\ act' = Act("wo_end", t, "none", TRUE, Cardinality(Held(t)))
  /\ UNCHANGED <<clock, snap, nsteps, xvars>>

----------------------------------------------------------------------------
(* SpecOrec: two threads, two objects, every step operation *)

OThreads == {1, 2}

\* ghost state of SpecOrec:
\*   muts[o]  committed writes of o (bumped when a step holding o commits)
\*   pre[o]   version o had immediately before its latest acquisition
\*   seen[t]  muts of the snapshot's object when t captured its snapshot
\*   rel[t]   an unwind of t's current write step released an orec
\*   re       the latest action was an unwind or a destructor of a write step
\*            that held nothing because an earlier unwind had released it
GhostOrec ==
  LET h ==
        CASE act'.name = "check_orec" /\ act'.ok ->
               [hist EXCEPT !.seen[act'.t] = hist.muts[act'.o]]
          [] act'.name \in {"acquire_continuation", "acquire_consistent",
                            "acquire_aggressive"} /\ act'.ok /\ ~orec[act'.o].lk ->
               [hist EXCEPT !.pre[act'.o] = orec[act'.o].val]
          [] act'.name = "wo_end" ->
               [hist EXCEPT !.muts = [o \in Objs |->
                  IF o \in Held(act'.t) THEN @[o] + 1 ELSE @[o]]]
          [] OTHER -> hist
  IN hist' =
       CASE act'.name = "unwind" ->
              [h EXCEPT !.rel[act'.t] = @ \/ act'.n > 0,
                        !.re = hist.rel[act'.t] /\ act'.n = 0]
         [] act'.name = "wo_end" ->
              [h EXCEPT !.rel[act'.t] = FALSE,
                        !.re = hist.rel[act'.t] /\ act'.n = 0]
         [] OTHER -> [h EXCEPT !.re = FALSE]

InitOrec ==
  /\ pc = [t \in OThreads |-> "idle"]
  /\ orec = [o \in Objs |-> Unlocked(0)]
  /\ locks = [t \in OThreads |-> {}]
  /\ start = [t \in OThreads |-> END_OF_TIME]
  /\ clock = 0
  /\ snap = [t \in OThreads |-> NoSnap]
  /\ act = NoAct
  /\ hist = [muts |-> [o \in Objs |-> 0], pre |-> [o \in Objs |-> 0],
             seen |-> [t \in OThreads |-> 0],
             rel |-> [t \in OThreads |-> FALSE], re |-> FALSE]
  /\ nsteps = [t \in OThreads |-> 0]
  /\ g = <<>> /\ mgr = <<>> /\ frame = <<>> /\ smr = <<>> /\ mem = <<>>

NextOrec ==
  \/ Tick
  \/ \E t \in OThreads : RBegin(t) /\ GhostOrec
  \/ \E t \in OThreads : WBegin(t) /\ GhostOrec
  \/ \E t \in OThreads, o \in Objs : CheckOrec(t, o) /\ GhostOrec
  \/ \E t \in OThreads : CheckContinuation(t) /\ GhostOrec
  \/ \E t \in OThreads : AcquireContinuation(t) /\ GhostOrec
  \/ \E t \in OThreads, o \in Objs : AcquireConsistent(t, o) /\ GhostOrec
  \/ \E t \in OThreads, o \in Objs : AcquireAggressive(t, o) /\ GhostOrec
  \/ \E t \in OThreads : Unwind(t) /\ GhostOrec
  \/ \E t \in OThreads : REnd(t) /\ GhostOrec
  \/ \E t \in OThreads : WEnd(t) /\ GhostOrec

SpecOrec == InitOrec /\ [][NextOrec]_vars

C3_ValidationSound ==
  (act.name = "check_continuation" /\ act.ok) =>
     hist.muts[act.o] = hist.seen[act.t]

\* a continuation validated on an object that had been written before the
\* capture, while the other object has been written since
C3_Witness ==
  /\ act.name = "check_continuation" /\ act.ok
  /\ snap[act.t].ver > 0
  /\ \E o \in Objs \ {act.o} : hist.muts[o] > 0

\* C10: unwind releases every orec the step holds and restores each to the
\* version it had immediately before the acquisition, so a snapshot another
\* thread took at that version validates again.
C10_UnwindRestores ==
  [][\A t \in OThreads :
       (act'.name = "unwind" /\ act'.t = t) =>
         /\ locks'[t] = {}
         /\ \A o \in Held(t) : orec'[o] = Unlocked(hist.pre[o])
         /\ \A u \in OThreads \ {t} :
              (snap[u].obj \in Held(t) /\ snap[u].ver = hist.pre[snap[u].obj])
                => Step_check_continuation(snap[u].obj, snap[u].ver)']_vars

\* an unwind released both orecs and the other thread's older snapshot of one
\* of them validates
C10_Witness ==
  /\ act.name = "unwind" /\ act.n = 2
  /\ \E u \in OThreads \ {act.t} :
       /\ snap[u] # NoSnap
       /\ hist.pre[snap[u].obj] = snap[u].ver
       /\ Step_check_continuation(snap[u].obj, snap[u].ver)

\* C11: an unwind of a write step that holds no orec (it acquired none, or an
\* earlier unwind released them) changes no orec, and neither does the
\* destructor that runs after it: nothing is reverted or advanced twice.
C11_IdempotentUnwind ==
  [][\A t \in OThreads :
       /\ (act'.name = "unwind" /\ act'.t = t /\ (Held(t) = {} \/ pc[t] = "unwound"))
            => orec' = orec
       /\ (act'.name = "wo_end" /\ act'.t = t /\ pc[t] = "unwound")
            => orec' = orec]_vars

\* the destructor ran on a step whose unwind had released its orecs, and the
\* other thread has committed a write in the meantime
C11_Witness ==
  /\ act.name = "wo_end" /\ act.n = 0
  /\ hist.re
  /\ \E o \in Objs : hist.muts[o] > 0 /\ orec[o] = Unlocked(hist.muts[o])

C18_FailedAcquireNoEffect ==
  [][(act'.name = "acquire_continuation" /\ ~act'.ok) =>
       (orec' = orec /\ locks' = locks)]_vars

\* an acquire_continuation was refused to a step that holds the other orec,
\* on an object that was committed after the caller captured its version
C18_Witness ==
  /\ act.name = "acquire_continuation" /\ ~act.ok
  /\ Held(act.t) # {} /\ act.o \notin Held(act.t)
  /\ ~orec[act.o].lk /\ orec[act.o].val > snap[act.t].ver

\* C19: acquire_consistent(obj) returns true and locks the orec for the
\* caller exactly when the orec was unlocked at a version <= the start time
\* of the caller's step; otherwise it returns false and changes nothing.
C19_AcquireConsistent ==
  [][\A t \in OThreads, o \in Objs :
       (act'.name = "acquire_consistent" /\ act'.t = t /\ act'.o = o /\ clock' = clock) =>
         IF ~orec[o].lk /\ orec[o].val <= start[t]
         THEN /\ act'.ok
              /\ orec' = [orec EXCEPT ![o] = Locked(t)]
              /\ Held(t)' = Held(t) \cup {o}
         ELSE /\ ~act'.ok
              /\ orec' = orec /\ locks' = locks]_vars

\* an acquire_consistent was refused on an unlocked orec whose version is
\* later than the start of the caller's step
C19_Witness ==
  /\ act.name = "acquire_consistent" /\ ~act.ok
  /\ ~orec[act.o].lk /\ orec[act.o].val > start[act.t]

\* C21: the versions an orec shows while unlocked never decrease: an unlocked
\* orec keeps its version until it is acquired, a commit releases it at a
\* version above the one before the acquisition, an unwind at that version.
C21_VersionsNonDecreasing ==
  [][\A o \in Objs :
       /\ (~orec[o].lk /\ ~orec'[o].lk) => orec'[o].val = orec[o].val
       /\ (orec[o].lk /\ ~orec'[o].lk) =>
            IF act'.name = "wo_end"
            THEN orec'[o].val > hist.pre[o]
            ELSE act'.name = "unwind" /\ orec'[o].val = hist.pre[o]]_vars

\* a commit released an orec above its version before the acquisition, after
\* the other thread's unwind had released an orec at the version it had
C21_Witness ==
  /\ act.name = "wo_end" /\ act.n > 0
  /\ \E o \in Objs : ~orec[o].lk /\ orec[o].val = hist.pre[o] + 1 /\ hist.muts[o] = 1
  /\ \E u \in OThreads \ {act.t} : hist.rel[u]

----------------------------------------------------------------------------
(* SpecRace: write-steps of three threads contend for one object through   *)
(* check_orec / acquire_continuation, then commit or unwind                *)

RaceObj == "a"

\* ghost state of SpecRace:
\*   tried[v]    threads that called acquire_continuation(RaceObj, v)
\*   wins[v]     calls acquire_continuation(RaceObj, v) that returned true
\*   unwound[v]  acquisitions made at version v that were reverted by unwind
\*   pre         version before the latest acquisition
\*   commits     destructions of a write step that held RaceObj
GhostRace ==
  hist' =
    CASE act'.name = "acquire_continuation" ->
           [hist EXCEPT !.tried[snap[act'.t].ver] = @ \cup {act'.t},
                        !.wins[snap[act'.t].ver] = IF act'.ok THEN @ + 1 ELSE @,
                        !.pre = IF act'.ok THEN snap[act'.t].ver ELSE @]
      [] act'.name = "unwind" /\ act'.n > 0 ->
           [hist EXCEPT !.unwound[hist.pre] = @ + 1]
      [] act'.name = "wo_end" /\ act'.n > 0 ->
           [hist EXCEPT !.commits = @ + 1]
      [] OTHER -> hist

InitRace ==
  /\ pc = [t \in Threads |-> "idle"]
  /\ orec = [o \in {RaceObj} |-> Unlocked(0)]
  /\ locks = [t \in Threads |-> {}]
  /\ start = [t \in Threads |-> END_OF_TIME]
  /\ clock = 0
  /\ snap = [t \in Threads |-> NoSnap]
  /\ act = NoAct
  /\ hist = [tried |-> [v \in Versions |-> {}], wins |-> [v \in Versions |-> 0],
             unwound |-> [v \in Versions |-> 0], pre |-> 0, commits |-> 0]
  /\ nsteps = [t \in Threads |-> 0]
  /\ g = <<>> /\ mgr = <<>> /\ frame = <<>> /\ smr = <<>> /\ mem = <<>>

NextRace ==
  \/ \E t \in Threads : WBegin(t) /\ GhostRace
  \/ \E t \in Threads : CheckOrec(t, RaceObj) /\ GhostRace
  \/ \E t \in Threads : AcquireContinuation(t) /\ GhostRace
  \/ \E t \in Threads : Unwind(t) /\ GhostRace
  \/ \E t \in Threads : WEnd(t) /\ GhostRace

SpecRace == InitRace /\ [][NextRace]_vars

\* C1 as stated: among the acquire_continuation(O, v) calls made with one
\* version v, exactly one returns true.
C1_ExactlyOneWinner ==
  \A v \in Versions : hist.tried[v] # {} => hist.wins[v] = 1

\* C1 amended: at least one call with v returns true, and a further call with
\* the same v returns true only after a winner unwound (which restores v);
\* with no unwind at v, exactly one call returns true.
C1_OneWinnerPerRelease ==
  \A v \in Versions :
    hist.tried[v] # {} =>
      /\ hist.wins[v] >= 1
      /\ hist.wins[v] <= 1 + hist.unwound[v]

\* all three threads called with version 0, one won and committed
C1_Witness ==
  /\ hist.tried[0] = Threads
  /\ hist.wins[0] = 1 /\ hist.unwound[0] = 0
  /\ orec[RaceObj] = Unlocked(1)

\* C20: every committed write of the object advances its version by exactly
\* one and a reverted acquisition by nothing: after k committed writes the
\* version is the initial version plus k, and while the orec is held the
\* version to be restored or advanced is that one.
C20_VersionCountsCommits ==
  IF orec[RaceObj].lk
  THEN locks[orec[RaceObj].val] = {[obj |-> RaceObj, prev |-> hist.commits]}
  ELSE orec[RaceObj] = Unlocked(hist.commits)

\* two writes were committed and an acquisition in between was reverted
C20_Witness ==
  /\ hist.commits = 2 /\ orec[RaceObj] = Unlocked(2)
  /\ hist.unwound[1] = 1

----------------------------------------------------------------------------
(* IrrevocQuiesceEpochManager<MAXTHREADS>: the epoch table, the             *)
(* irrevocability token and quiescence, one action per shared-memory access *)

MAXTHREADS == 3
\* calls of onBegin / tryIrrevoc the threads of SpecEpoch may make in total
MaxCalls == 3

EThreads == {1, 2, 3}

RECURSIVE SumOver(_, _)
SumOver(f, S) ==
  IF S = {} THEN 0
  ELSE LET x == CHOOSE y \in S : TRUE IN f[x] + SumOver(f, S \ {x})
\* the calls made so far
Calls == SumOver(nsteps, DOMAIN nsteps)

\* (uintptr_t)-1, the slot of a thread that is in no transaction
IDLE == 2^8 - 1

\* the manager of a thread that has not constructed one yet
NoMgr == [id |-> MAXTHREADS, hasToken |-> FALSE]
\* the locals of a call: the time argument, the thread count read, the scan
\* index, where the call returns to, and whether the caller runs irrevocably
\* (tryIrrevoc returned true and onCommitIrrevoc was not called since)
NoFrame == [time |-> 0, count |-> 0, i |-> 0, back |-> "idle", irr |-> FALSE]

\* Globals(): generator zero, every slot -1, token zero
Globals ==
  [idGenerator |-> 0, epochs |-> [i \in 0..(MAXTHREADS - 1) |-> IDLE], token |-> 0]

clearEpoch(id) == [g EXCEPT !.epochs[id] = IDLE]
setEpoch(id, time) == [g EXCEPT !.epochs[id] = time]
existIrrevoc == g.token # 0

\* the scans wait on every slot but the caller's own
tryIrrevoc_self(i, id) == i = id
tryIrrevoc_others(i, id) == i # id
tryIrrevoc_busy(i) == g.epochs[i] # IDLE
quiesce_self(i, id) == i = id
quiesce_others(i, id) == i # id
\* a comparison that reads the slot as a signed word, so that -1 is small
quiesce_busy_signed(i, time) ==
  (IF g.epochs[i] = IDLE THEN -1 ELSE g.epochs[i]) < time
quiesce_busy(i, time) == g.epochs[i] < time

\* the slot a thread publishes in; IDLE while it has no manager
Slot(t) == IF mgr[t].id < MAXTHREADS THEN g.epochs[mgr[t].id] ELSE IDLE

\* a thread is inside a step from the return of onBegin to the end of the step
InCall(t) == pc[t] \in {"ti_cas", "ti_cnt", "ti_scan", "q_cnt", "q_scan"}
Live(t) == pc[t] = "step" \/ (InCall(t) /\ frame[t].back = "step")
Irrevocable(t) == frame[t].irr

(* 4.5 the reclamation pool behind op->smr *)

\* reclaim: the step's private list
smr_reclaim(t, o) == [smr EXCEPT !.pending[t] = @ \cup {o}]
\* commit: the list is stamped with the logical time and moved to the pool
smr_commit(t, time) ==
  [smr EXCEPT !.pending[t] = {},
              !.pool[t] = @ \cup {[obj |-> o, ts |-> time] : o \in smr.pending[t]}]
\* the oldest pending timestamp
smr_oldest(t) ==
  CHOOSE m \in {r.ts : r \in smr.pool[t]} : \A r \in smr.pool[t] : m <= r.ts
\* after quiesce(time): everything stamped <= time is destroyed
smr_destroy(t, time) ==
  [smr EXCEPT !.pool[t] = {r \in @ : r.ts > time},
              !.destroyed = @ \cup {r.obj : r \in {q \in smr.pool[t] : q.ts <= time}}]
Reclaimed ==
  smr.destroyed \cup UNION {smr.pending[t] : t \in EThreads}
                \cup {r.obj : r \in UNION {smr.pool[t] : t \in EThreads}}

\* objects are unlinked in a fixed order
Before(p, o) == p = "a" /\ o = "b"

Return(t) ==
  /\ pc' = [pc EXCEPT ![t] = frame[t].back]
  /\ frame' = [frame EXCEPT ![t] = [NoFrame EXCEPT !.irr = frame[t].irr]]

\* a constructor that terminates only when the id is above MAXTHREADS
Construct_above(t) ==
  /\ pc[t] = "new"
  /\ g' = [g EXCEPT !.idGenerator = @ + 1]
  /\ mgr' = [mgr EXCEPT ![t] = [id |-> g.idGenerator, hasToken |-> FALSE]]
  /\ pc' = IF g.idGenerator > MAXTHREADS
           THEN [u \in DOMAIN pc |-> "terminated"]
           ELSE [pc EXCEPT ![t] = "idle"]
  /\ UNCHANGED <<clock, nsteps, frame, smr, ovars>>

\* BasicEpochManager(g): id(g.idGenerator.val++), terminate when out of slots
Construct(t) ==
  /\ pc[t] = "new"
  /\ g' = [g EXCEPT !.idGenerator = @ + 1]
  /\ mgr' = [mgr EXCEPT ![t] = [id |-> g.idGenerator, hasToken |-> FALSE]]
  /\ pc' = IF g.idGenerator >= MAXTHREADS
           THEN [u \in DOMAIN pc |-> "terminated"]
           ELSE [pc EXCEPT ![t] = "idle"]
  /\ UNCHANGED <<clock, nsteps, frame, smr, ovars>>

\* a step begins: the caller reads the clock and calls onBegin(g, time)
OnBeginWithin(t, max) ==
  /\ pc[t] = "idle" /\ Calls < max
  /\ nsteps' = [nsteps EXCEPT ![t] = @ + 1]
  /\ frame' = [frame EXCEPT ![t].time = clock]
  /\ pc' = [pc EXCEPT ![t] = "ob_set"]
  /\ UNCHANGED <<clock, g, mgr, smr, ovars>>

\* a step begins while fewer than MaxCalls calls have been made
OnBegin(t) == OnBeginWithin(t, MaxCalls)

\* onBegin: setEpoch(g, time)
OnBegin_setEpoch(t) ==
  /\ pc[t] = "ob_set"
  /\ g' = setEpoch(mgr[t].id, frame[t].time)
  /\ pc' = [pc EXCEPT ![t] = "ob_chk"]
  /\ UNCHANGED <<clock, nsteps, mgr, frame, smr, ovars>>

\* onBegin: if (!g.token.val) break;
OnBegin_check(t) ==
  /\ pc[t] = "ob_chk"
  /\ IF ~existIrrevoc
     THEN /\ pc' = [pc EXCEPT ![t] = "step"]
          /\ frame' = [frame EXCEPT ![t].time = 0]
     ELSE /\ pc' = [pc EXCEPT ![t] = "ob_clr"]
          /\ frame' = frame
  /\ UNCHANGED <<clock, nsteps, g, mgr, smr, ovars>>

\* an onBegin that goes to wait for the token with its epoch still published
OnBegin_keepEpoch(t) ==
  /\ pc[t] = "ob_clr"
  /\ pc' = [pc EXCEPT ![t] = "ob_spin"]
  /\ UNCHANGED <<clock, nsteps, g, mgr, frame, smr, ovars>>

\* onBegin: clearEpoch(g)
OnBegin_clearEpoch(t) ==
  /\ pc[t] = "ob_clr"
  /\ g' = clearEpoch(mgr[t].id)
  /\ pc' = [pc EXCEPT ![t] = "ob_spin"]
  /\ UNCHANGED <<clock, nsteps, mgr, frame, smr, ovars>>

\* an onBegin that, once it has seen the token held, waits for the token to
\* be taken again
OnBegin_spin_taken(t) ==
  /\ pc[t] = "ob_spin"
  /\ existIrrevoc
  /\ pc' = [pc EXCEPT ![t] = "ob_set"]
  /\ UNCHANGED <<clock, nsteps, g, mgr, frame, smr, ovars>>

\* onBegin: while (g.token.val);
OnBegin_spin(t) ==
  /\ pc[t] = "ob_spin"
  /\ ~existIrrevoc
  /\ pc' = [pc EXCEPT ![t] = "ob_set"]
  /\ UNCHANGED <<clock, nsteps, g, mgr, frame, smr, ovars>>

\* WStep::reclaim inside the step
Reclaim(t, o) ==
  /\ pc[t] = "step" /\ o \notin Reclaimed
  /\ \A p \in Objs : Before(p, o) => p \in Reclaimed
  /\ smr' = smr_reclaim(t, o)
  /\ UNCHANGED <<pc, clock, nsteps, g, mgr, frame, ovars>>

\* a step end that leaves the thread's epoch published
StepEnd_published(t) ==
  /\ pc[t] = "step" /\ ~Irrevocable(t)
  /\ smr' = smr_commit(t, clock)
  /\ pc' = [pc EXCEPT ![t] = "idle"]
  /\ UNCHANGED <<clock, nsteps, g, mgr, frame, ovars>>

\* the step ends: it commits its reclaim list and clears its publication
StepEnd(t) ==
  /\ pc[t] = "step" /\ ~Irrevocable(t)
  /\ smr' = smr_commit(t, clock)
  /\ g' = clearEpoch(mgr[t].id)
  /\ pc' = [pc EXCEPT ![t] = "idle"]
  /\ UNCHANGED <<clock, nsteps, mgr, frame, ovars>>

\* a tryIrrevoc that withdraws its own epoch when it finds the token taken
TryIrrevoc_withdraw(t) ==
  /\ pc[t] \in {"idle", "step"} /\ Calls < MaxCalls
  /\ nsteps' = [nsteps EXCEPT ![t] = @ + 1]
  /\ IF mgr[t].hasToken
     THEN /\ frame' = [frame EXCEPT ![t].irr = TRUE]
          /\ UNCHANGED <<pc, g>>
     ELSE IF existIrrevoc
     THEN /\ g' = clearEpoch(mgr[t].id)
          /\ UNCHANGED <<pc, frame>>
     ELSE /\ frame' = [frame EXCEPT ![t].back = pc[t]]
          /\ pc' = [pc EXCEPT ![t] = "ti_cas"]
          /\ g' = g
  /\ UNCHANGED <<clock, mgr, smr, ovars>>

\* a tryIrrevoc whose holder scans the epoch slots again before it returns
TryIrrevoc_rescan(t) ==
  /\ pc[t] \in {"idle", "step"} /\ Calls < MaxCalls
  /\ nsteps' = [nsteps EXCEPT ![t] = @ + 1]
  /\ IF mgr[t].hasToken
     THEN /\ frame' = [frame EXCEPT ![t].back = pc[t]]
          /\ pc' = [pc EXCEPT ![t] = "ti_cnt"]
     ELSE IF existIrrevoc
     THEN UNCHANGED <<pc, frame>>
     ELSE /\ frame' = [frame EXCEPT ![t].back = pc[t]]
          /\ pc' = [pc EXCEPT ![t] = "ti_cas"]
  /\ UNCHANGED <<clock, g, mgr, smr, ovars>>

\* tryIrrevoc: if (hasToken) return true; if (g.token.val) return false;
TryIrrevocWithin(t, max) ==
  /\ pc[t] \in {"idle", "step"} /\ Calls < max
  /\ nsteps' = [nsteps EXCEPT ![t] = @ + 1]
  /\ IF mgr[t].hasToken
     THEN /\ frame' = [frame EXCEPT ![t].irr = TRUE]
          /\ pc' = pc
     ELSE IF existIrrevoc
     THEN UNCHANGED <<pc, frame>>
     ELSE /\ frame' = [frame EXCEPT ![t].back = pc[t]]
          /\ pc' = [pc EXCEPT ![t] = "ti_cas"]
  /\ UNCHANGED <<clock, g, mgr, smr, ovars>>

\* tryIrrevoc is called while fewer than MaxCalls calls have been made
TryIrrevoc(t) == TryIrrevocWithin(t, MaxCalls)

\* a tryIrrevoc that stores the token where the code compares and swaps
TryIrrevoc_store(t) ==
  /\ pc[t] = "ti_cas"
  /\ g' = [g EXCEPT !.token = 1]
  /\ pc' = [pc EXCEPT ![t] = "ti_cnt"]
  /\ UNCHANGED <<clock, nsteps, mgr, frame, smr, ovars>>

\* tryIrrevoc: g.token.val.compare_exchange_strong(oldval, 1)
TryIrrevoc_cas(t) ==
  /\ pc[t] = "ti_cas"
  /\ IF g.token = 0
     THEN /\ g' = [g EXCEPT !.token = 1]
          /\ pc' = [pc EXCEPT ![t] = "ti_cnt"]
          /\ frame' = frame
     ELSE /\ g' = g
          /\ Return(t)
  /\ UNCHANGED <<clock, nsteps, mgr, smr, ovars>>

\* tryIrrevoc: count = g.idGenerator.val
TryIrrevoc_count(t) ==
  /\ pc[t] = "ti_cnt"
  /\ frame' = [frame EXCEPT ![t].count = g.idGenerator, ![t].i = 0]
  /\ pc' = [pc EXCEPT ![t] = "ti_scan"]
  /\ UNCHANGED <<clock, nsteps, g, mgr, smr, ovars>>

\* tryIrrevoc: one turn of the for loop, or hasToken = true; return true
TryIrrevoc_scan(t) ==
  /\ pc[t] = "ti_scan"
  /\ IF frame[t].i < frame[t].count
     THEN /\ tryIrrevoc_others(frame[t].i, mgr[t].id) => ~tryIrrevoc_busy(frame[t].i)
          /\ frame' = [frame EXCEPT ![t].i = @ + 1]
          /\ UNCHANGED <<pc, mgr>>
     ELSE /\ mgr' = [mgr EXCEPT ![t].hasToken = TRUE]
          /\ pc' = [pc EXCEPT ![t] = frame[t].back]
          /\ frame' = [frame EXCEPT ![t] = [NoFrame EXCEPT !.irr = TRUE]]
  /\ UNCHANGED <<clock, nsteps, g, smr, ovars>>

\* an onCommitIrrevoc that leaves the caller's slot as it is
OnCommitIrrevoc_noClear(t) ==
  /\ pc[t] \in {"idle", "step"} /\ Irrevocable(t)
  /\ smr' = smr_commit(t, clock)
  /\ frame' = [frame EXCEPT ![t].irr = FALSE]
  /\ pc' = [pc EXCEPT ![t] = "oc_tok"]
  /\ UNCHANGED <<clock, nsteps, g, mgr, ovars>>

\* the irrevocable thread commits: onCommitIrrevoc, clearEpoch(g)
OnCommitIrrevoc(t) ==
  /\ pc[t] \in {"idle", "step"} /\ Irrevocable(t)
  /\ smr' = smr_commit(t, clock)
  /\ g' = clearEpoch(mgr[t].id)
  /\ frame' = [frame EXCEPT ![t].irr = FALSE]
  /\ pc' = [pc EXCEPT ![t] = "oc_tok"]
  /\ UNCHANGED <<clock, nsteps, mgr, ovars>>

\* onCommitIrrevoc: g.token.val = 0
OnCommitIrrevoc_token(t) ==
  /\ pc[t] = "oc_tok"
  /\ g' = [g EXCEPT !.token = 0]
  /\ pc' = [pc EXCEPT ![t] = "oc_flag"]
  /\ UNCHANGED <<clock, nsteps, mgr, frame, smr, ovars>>

\* onCommitIrrevoc: hasToken = false
OnCommitIrrevoc_flag(t) ==
  /\ pc[t] = "oc_flag"
  /\ mgr' = [mgr EXCEPT ![t].hasToken = FALSE]
  /\ pc' = [pc EXCEPT ![t] = "idle"]
  /\ UNCHANGED <<clock, nsteps, g, frame, smr, ovars>>

\* the pool's owner calls quiesce(oldest pending timestamp)
Quiesce(t) ==
  /\ pc[t] = "idle" /\ smr.pool[t] # {}
  /\ frame' = [frame EXCEPT ![t].time = smr_oldest(t), ![t].back = "idle"]
  /\ pc' = [pc EXCEPT ![t] = "q_cnt"]
  /\ UNCHANGED <<clock, nsteps, g, mgr, smr, ovars>>

\* the time arguments quiesce is called with directly
Times == (0..MaxTime) \cup {IDLE}

\* a thread with nothing in its pool calls quiesce(g, time), inside a step or
\* outside
QuiesceAtWithin(t, time, max) ==
  /\ pc[t] \in {"idle", "step"} /\ Calls < max
  /\ smr.pool[t] = {}
  /\ nsteps' = [nsteps EXCEPT ![t] = @ + 1]
  /\ frame' = [frame EXCEPT ![t].time = time, ![t].back = pc[t]]
  /\ pc' = [pc EXCEPT ![t] = "q_cnt"]
  /\ UNCHANGED <<clock, g, mgr, smr, ovars>>

\* quiesce is called while fewer than MaxCalls calls have been made
QuiesceAt(t, time) == QuiesceAtWithin(t, time, MaxCalls)

\* quiesce: count = g.idGenerator.val
Quiesce_count(t) ==
  /\ pc[t] = "q_cnt"
  /\ frame' = [frame EXCEPT ![t].count = g.idGenerator, ![t].i = 0]
  /\ pc' = [pc EXCEPT ![t] = "q_scan"]
  /\ UNCHANGED <<clock, nsteps, g, mgr, smr, ovars>>

\* quiesce: one turn of the for loop, or return; on return the pool destroys
\* what is stamped <= time
Quiesce_scan(t) ==
  /\ pc[t] = "q_scan"
  /\ IF frame[t].i < frame[t].count
     THEN /\ quiesce_others(frame[t].i, mgr[t].id) =>
               ~quiesce_busy(frame[t].i, frame[t].time)
          /\ frame' = [frame EXCEPT ![t].i = @ + 1]
          /\ UNCHANGED <<pc, smr>>
     ELSE /\ smr' = smr_destroy(t, frame[t].time)
          /\ Return(t)
  /\ UNCHANGED <<clock, nsteps, g, mgr, ovars>>

\* ghost state of SpecEpoch, per reclaimed object:
\*   was[o]     the other threads that had a published epoch below o's
\*              timestamp when o's step committed
\*   pinned[o]  those of them that have not cleared their slot since
\*   qret[o]    a quiesce(time) with time >= o's timestamp has returned to
\*              the owner of o's pool
\*   late       the threads that registered while another thread was scanning
\*              in tryIrrevoc or was irrevocable
GhostEpoch ==
  LET stamped(t) == {r \in smr'.pool[t] : r \notin smr.pool[t] /\ r.obj \notin Reclaimed \ smr.pending[t]}
      fresh == UNION {{[obj |-> r.obj, ts |-> r.ts, by |-> t] : r \in stamped(t)} : t \in EThreads}
      below(r) == {u \in EThreads \ {r.by} : Slot(u) < r.ts}
      done(t) == pc[t] = "q_scan" /\ pc'[t] = "idle"
  IN hist' =
       [pinned |-> [o \in Objs |->
           IF \E r \in fresh : r.obj = o
           THEN below(CHOOSE r \in fresh : r.obj = o)
           ELSE {u \in hist.pinned[o] : Slot(u)' # IDLE}],
        was |-> [o \in Objs |->
           IF \E r \in fresh : r.obj = o
           THEN below(CHOOSE r \in fresh : r.obj = o)
           ELSE hist.was[o]],
        qret |-> [o \in Objs |->
           \/ hist.qret[o]
           \/ \E t \in EThreads : done(t) /\ \E r \in smr.pool[t] :
                                     r.obj = o /\ r.ts <= frame[t].time],
        late |-> hist.late \cup
           {t \in EThreads : /\ pc[t] = "new" /\ pc'[t] = "idle"
                             /\ \E a \in EThreads : pc[a] = "ti_scan" \/ Irrevocable(a)}]

InitEpoch ==
  /\ pc = [t \in EThreads |-> "new"]
  /\ clock = 0
  /\ nsteps = [t \in EThreads |-> 0]
  /\ g = Globals
  /\ mgr = [t \in EThreads |-> NoMgr]
  /\ frame = [t \in EThreads |-> NoFrame]
  /\ smr = [pending |-> [t \in EThreads |-> {}], pool |-> [t \in EThreads |-> {}],
            destroyed |-> {}]
  /\ hist = [pinned |-> [o \in Objs |-> {}], was |-> [o \in Objs |-> {}],
             qret |-> [o \in Objs |-> FALSE], late |-> {}]
  /\ orec = <<>> /\ locks = <<>> /\ start = <<>> /\ snap = <<>> /\ act = NoAct
  /\ mem = <<>>

NextEpoch ==
  \/ Tick
  \/ \E t \in EThreads : Construct(t) /\ GhostEpoch
  \/ \E t \in EThreads : OnBegin(t) /\ GhostEpoch
  \/ \E t \in EThreads : OnBegin_setEpoch(t) /\ GhostEpoch
  \/ \E t \in EThreads : OnBegin_check(t) /\ GhostEpoch
  \/ \E t \in EThreads : OnBegin_clearEpoch(t) /\ GhostEpoch
  \/ \E t \in EThreads : OnBegin_spin(t) /\ GhostEpoch
  \/ \E t \in EThreads, o \in Objs : Reclaim(t, o) /\ GhostEpoch
  \/ \E t \in EThreads : StepEnd(t) /\ GhostEpoch
  \/ \E t \in EThreads : TryIrrevoc(t) /\ GhostEpoch
  \/ \E t \in EThreads : TryIrrevoc_cas(t) /\ GhostEpoch
  \/ \E t \in EThreads : TryIrrevoc_count(t) /\ GhostEpoch
  \/ \E t \in EThreads : TryIrrevoc_scan(t) /\ GhostEpoch
  \/ \E t \in EThreads : OnCommitIrrevoc(t) /\ GhostEpoch
  \/ \E t \in EThreads : OnCommitIrrevoc_token(t) /\ GhostEpoch
  \/ \E t \in EThreads : OnCommitIrrevoc_flag(t) /\ GhostEpoch
  \/ \E t \in EThreads : Quiesce(t) /\ GhostEpoch
  \/ \E t \in EThreads : Quiesce_count(t) /\ GhostEpoch
  \/ \E t \in EThreads : Quiesce_scan(t) /\ GhostEpoch

SpecEpoch == InitEpoch /\ [][NextEpoch]_vars

Holder(t) == mgr[t].hasToken /\ pc[t] # "oc_flag"

\* C6 as stated: at most one thread has hasToken = true, and the token is
\* non-zero (existIrrevoc is true) whenever some thread has it.
C6_HasTokenExclusive ==
  /\ Cardinality({t \in EThreads : mgr[t].hasToken}) <= 1
  /\ (\E t \in EThreads : mgr[t].hasToken) => existIrrevoc

\* C6 amended: at most one thread holds the token, where the tail of
\* onCommitIrrevoc (token already zero, hasToken not yet cleared) no longer
\* counts as holding; while it is held existIrrevoc is true, and a thread for
\* which tryIrrevoc returned true is the holder, so no tryIrrevoc of another
\* thread returns true meanwhile.
C6_SingleHolder ==
  /\ Cardinality({t \in EThreads : Holder(t)}) <= 1
  /\ \A t \in EThreads : Holder(t) => existIrrevoc
  /\ \A t \in EThreads : Irrevocable(t) => Holder(t)

\* one thread holds the token, a second is about to fail its compare-and-swap,
\* a third has released the token and not yet cleared hasToken
C6_Witness ==
  \E a, b, c \in EThreads :
    /\ Holder(a) /\ Irrevocable(a)
    /\ pc[b] = "ti_cas"
    /\ pc[c] = "oc_flag" /\ mgr[c].hasToken

\* C7: while a thread is irrevocable (tryIrrevoc returned true, onCommitIrrevoc
\* not yet called) no other thread is inside a step, and a published slot of
\* another thread belongs to an onBegin that has not passed the token check;
\* threads that registered after the count was read are included.
C7_IrrevocAlone ==
  \A a \in EThreads : Irrevocable(a) =>
    \A b \in EThreads \ {a} :
      /\ ~Live(b)
      /\ Slot(b) # IDLE => pc[b] \in {"ob_chk", "ob_clr"}

\* a thread that registered during the scan is held at the begin barrier of an
\* irrevocable thread that became irrevocable inside its own step
C7_Witness ==
  \E a \in EThreads, b \in hist.late :
    /\ Irrevocable(a) /\ pc[a] = "step"
    /\ pc[b] = "ob_spin"

\* C12 as stated: in every reachable state a thread's slot is idle if and
\* only if the thread holds no live step, and it is idle while the thread is
\* held in onBegin by the token.
C12_SlotIdleIffNoStep ==
  \A t \in EThreads :
    /\ Slot(t) = IDLE <=> ~Live(t)
    /\ pc[t] \in {"ob_clr", "ob_spin"} => Slot(t) = IDLE

\* C12 amended: the slot of a thread inside a step is published; a published
\* slot belongs to a live step or to an onBegin that has stored its epoch and
\* not yet tested the token or cleared the slot again; the slot is idle while
\* onBegin spins on the token.
C12_SlotTracksStep ==
  \A t \in EThreads :
    /\ Live(t) => Slot(t) # IDLE
    /\ Slot(t) # IDLE => (Live(t) \/ pc[t] \in {"ob_chk", "ob_clr"})
    /\ pc[t] = "ob_spin" => Slot(t) = IDLE

\* beside an irrevocable thread, one thread spins in onBegin with an idle
\* slot and another has published its epoch and is about to clear it
C12_Witness ==
  \E a, b, c \in EThreads :
    /\ Irrevocable(a)
    /\ pc[b] = "ob_spin" /\ Slot(b) = IDLE
    /\ pc[c] = "ob_clr" /\ Slot(c) # IDLE

----------------------------------------------------------------------------
(* SpecToken: threads register, begin and end steps, ask for the token and  *)
(* give it back; nothing is reclaimed                                       *)

\* a thread owns the token from its compare-and-swap in tryIrrevoc to its
\* store of zero in onCommitIrrevoc
Owns(t) == pc[t] \in {"ti_cnt", "ti_scan"} \/ Holder(t)

NoLast == [name |-> "other", t |-> 0, held |-> FALSE, ret |-> "none",
           g |-> Globals, mgr |-> NoMgr]

\* ghost state of SpecToken: the call that was made, or that returned, in the
\* latest step
\*   last.name  "tryIrrevoc" (called), "onCommitIrrevoc" (returned) or "other"
\*   last.t     the caller
\*   last.held  another thread owned the token when tryIrrevoc was called
\*   last.ret   what tryIrrevoc returned in that step, "pending" if it did not
\*   last.g     the globals before the step
\*   last.mgr   the caller's manager before the step
\*   waited[t]  t has been in the spin of the onBegin it is in, or of the
\*              onBegin that began the step it is in
GhostToken ==
  LET called == {t \in EThreads : /\ pc[t] \in {"idle", "step"}
                                   /\ nsteps'[t] = nsteps[t] + 1
                                   /\ pc'[t] # "ob_set"}
      returned == {t \in EThreads : pc[t] = "oc_flag" /\ pc'[t] # "oc_flag"}
  IN hist' =
       [last |->
          IF called # {}
          THEN LET t == CHOOSE t \in called : TRUE IN
               [name |-> "tryIrrevoc", t |-> t,
                held |-> \E u \in EThreads \ {t} : Owns(u),
                ret |-> IF pc'[t] = "ti_cas" THEN "pending"
                        ELSE IF mgr[t].hasToken THEN "true" ELSE "false",
                g |-> g, mgr |-> mgr[t]]
          ELSE IF returned # {}
          THEN LET t == CHOOSE t \in returned : TRUE IN
               [NoLast EXCEPT !.name = "onCommitIrrevoc", !.t = t]
          ELSE NoLast,
        waited |-> [t \in EThreads |->
          IF pc'[t] = "ob_spin" THEN TRUE
          ELSE IF pc'[t] \in {"ob_set", "ob_chk", "step"} THEN hist.waited[t]
          ELSE FALSE]]

InitToken ==
  /\ pc = [t \in EThreads |-> "new"]
  /\ clock = 0
  /\ nsteps = [t \in EThreads |-> 0]
  /\ g = Globals
  /\ mgr = [t \in EThreads |-> NoMgr]
  /\ frame = [t \in EThreads |-> NoFrame]
  /\ smr = [pending |-> [t \in EThreads |-> {}], pool |-> [t \in EThreads |-> {}],
            destroyed |-> {}]
  /\ hist = [last |-> NoLast, waited |-> [t \in EThreads |-> FALSE]]
  /\ orec = <<>> /\ locks = <<>> /\ start = <<>> /\ snap = <<>> /\ act = NoAct
  /\ mem = <<>>

NextToken ==
  \/ Tick
  \/ \E t \in EThreads : Construct(t) /\ GhostToken
  \/ \E t \in EThreads : OnBegin(t) /\ GhostToken
  \/ \E t \in EThreads : OnBegin_setEpoch(t) /\ GhostToken
  \/ \E t \in EThreads : OnBegin_check(t) /\ GhostToken
  \/ \E t \in EThreads : OnBegin_clearEpoch(t) /\ GhostToken
  \/ \E t \in EThreads : OnBegin_spin(t) /\ GhostToken
  \/ \E t \in EThreads : StepEnd(t) /\ GhostToken
  \/ \E t \in EThreads : TryIrrevoc(t) /\ GhostToken
  \/ \E t \in EThreads : TryIrrevoc_cas(t) /\ GhostToken
  \/ \E t \in EThreads : TryIrrevoc_count(t) /\ GhostToken
  \/ \E t \in EThreads : TryIrrevoc_scan(t) /\ GhostToken
  \/ \E t \in EThreads : OnCommitIrrevoc(t) /\ GhostToken
  \/ \E t \in EThreads : OnCommitIrrevoc_token(t) /\ GhostToken
  \/ \E t \in EThreads : OnCommitIrrevoc_flag(t) /\ GhostToken

SpecToken == InitToken /\ [][NextToken]_vars

\* C14: a tryIrrevoc called while another thread owns the token returns
\* false in the same step, without entering the scan of the epoch slots, and
\* leaves the token, the epoch table and the caller's hasToken as they were.
C14_FailsWithoutWaiting ==
  LET l == hist.last IN
  (l.name = "tryIrrevoc" /\ l.held) =>
    /\ l.ret = "false"
    /\ pc[l.t] \in {"idle", "step"} /\ ~Irrevocable(l.t)
    /\ g = l.g
    /\ mgr[l.t] = l.mgr /\ ~mgr[l.t].hasToken

\* a thread inside a step was refused the token while the owner's scan was
\* held at that thread's published slot
C14_Witness ==
  LET l == hist.last IN
  /\ l.name = "tryIrrevoc" /\ l.held /\ l.ret = "false"
  /\ pc[l.t] = "step" /\ Slot(l.t) # IDLE
  /\ \E u \in EThreads \ {l.t} : pc[u] = "ti_scan" /\ frame[u].i = mgr[l.t].id

\* C15 as stated: when onCommitIrrevoc has returned the token is 0, the
\* caller's hasToken is false and its slot is idle.
C15_TokenZeroAfterCommit ==
  LET l == hist.last IN
  l.name = "onCommitIrrevoc" =>
    /\ g.token = 0
    /\ ~mgr[l.t].hasToken
    /\ Slot(l.t) = IDLE

\* C15 amended: when onCommitIrrevoc has returned the caller's hasToken is
\* false, its slot is idle and it no longer owns the token; from its store of
\* zero on, the token is zero unless another thread has taken it since.
C15_TokenReleased ==
  /\ LET l == hist.last IN
     l.name = "onCommitIrrevoc" =>
       /\ ~mgr[l.t].hasToken
       /\ Slot(l.t) = IDLE
       /\ ~Owns(l.t)
  /\ \A t \in EThreads :
       (pc[t] = "oc_flag" \/ (hist.last.name = "onCommitIrrevoc" /\ hist.last.t = t)) =>
         (g.token = 0 \/ \E u \in EThreads \ {t} : Owns(u))

\* onCommitIrrevoc has returned to a thread that had become irrevocable inside
\* a step, and another thread has become irrevocable since the token was
\* stored as zero
C15_Witness ==
  LET l == hist.last IN
  /\ l.name = "onCommitIrrevoc"
  /\ nsteps[l.t] = 2
  /\ \E u \in EThreads \ {l.t} : Irrevocable(u) /\ Holder(u)

\* C30: a tryIrrevoc called by the thread that has the token returns true in
\* the same step: the caller is where it was and irrevocable, it entered no
\* compare-and-swap and no scan, and the token, the epoch table and its
\* hasToken are as they were.
C30_HolderSucceedsAtOnce ==
  LET l == hist.last IN
  (l.name = "tryIrrevoc" /\ l.mgr.hasToken) =>
    /\ l.ret = "true"
    /\ pc[l.t] \in {"idle", "step"} /\ Irrevocable(l.t)
    /\ g = l.g /\ g.token = 1
    /\ mgr[l.t] = l.mgr

\* the holder asked again while another thread, which a scan would have to
\* wait for, had its epoch published inside onBegin
C30_Witness ==
  LET l == hist.last IN
  /\ l.name = "tryIrrevoc" /\ l.mgr.hasToken /\ l.ret = "true"
  /\ \E u \in EThreads \ {l.t} : pc[u] = "ob_chk" /\ Slot(u) # IDLE

\* C31: a thread that holds the token never waits inside onBegin: its
\* onBegin does not clear its epoch and spin on the token it holds itself.
C31_HolderNotHeldUp ==
  \A t \in EThreads :
    mgr[t].hasToken => pc[t] \notin {"ob_clr", "ob_spin"}

\* the steps a thread takes inside a call it has made: the scheduler runs
\* every thread that can take a step
InCall_step(t) ==
  \/ OnBegin_setEpoch(t) \/ OnBegin_check(t) \/ OnBegin_clearEpoch(t)
  \/ OnBegin_spin(t)
  \/ TryIrrevoc_cas(t) \/ TryIrrevoc_count(t) \/ TryIrrevoc_scan(t)
  \/ OnCommitIrrevoc_token(t) \/ OnCommitIrrevoc_flag(t)

\* SpecToken with every thread scheduled again and again while it is inside
\* a call; whether a thread makes a call at all is left open
SpecTokenFair ==
  SpecToken /\ \A t \in EThreads : WF_vars(InCall_step(t) /\ GhostToken)

\* C32: if from some point on the token stays released, every thread that is
\* spinning inside onBegin eventually returns from onBegin, with its epoch
\* published.
C32_WaiterGetsThrough ==
  \A t \in EThreads :
    <>[](g.token = 0) =>
      ((pc[t] = "ob_spin") ~> (pc[t] = "step" /\ Slot(t) # IDLE))

\* a thread that had to spin in onBegin is inside its step with its epoch
\* published, the token having been released by the holder's onCommitIrrevoc
C32_Witness ==
  \E t \in EThreads :
    /\ hist.waited[t] /\ pc[t] = "step" /\ Slot(t) # IDLE
    /\ g.token = 0 /\ \A u \in EThreads : ~mgr[u].hasToken

----------------------------------------------------------------------------
(* SpecIds: one thread more than MAXTHREADS constructs a manager; the       *)
(* threads that have one begin and end steps                                *)

CThreads == 1..(MAXTHREADS + 1)

\* ghost state of SpecIds:
\*   ids    the <<thread, id>> pairs of the constructions that returned a
\*          manager, in the order in which they returned
\*   fatal  the number of constructions that ended in std::terminate
GhostIds ==
  LET made == {t \in CThreads : pc[t] = "new" /\ pc'[t] = "idle"}
      died == /\ g'.idGenerator # g.idGenerator
              /\ \E t \in CThreads : pc[t] = "new" /\ pc'[t] = "terminated"
  IN hist' =
       [ids |-> IF made # {}
                THEN LET t == CHOOSE t \in made : TRUE IN
                     Append(hist.ids, <<t, mgr'[t].id>>)
                ELSE hist.ids,
        fatal |-> IF died THEN hist.fatal + 1 ELSE hist.fatal]

InitIds ==
  /\ pc = [t \in CThreads |-> "new"]
  /\ clock = 0
  /\ nsteps = [t \in CThreads |-> 0]
  /\ g = Globals
  /\ mgr = [t \in CThreads |-> NoMgr]
  /\ frame = [t \in CThreads |-> NoFrame]
  /\ smr = [pending |-> [t \in CThreads |-> {}], pool |-> [t \in CThreads |-> {}],
            destroyed |-> {}]
  /\ hist = [ids |-> <<>>, fatal |-> 0]
  /\ orec = <<>> /\ locks = <<>> /\ start = <<>> /\ snap = <<>> /\ act = NoAct
  /\ mem = <<>>

NextIds ==
  \/ Tick
  \/ \E t \in CThreads : Construct(t) /\ GhostIds
  \/ \E t \in CThreads : OnBegin(t) /\ GhostIds
  \/ \E t \in CThreads : OnBegin_setEpoch(t) /\ GhostIds
  \/ \E t \in CThreads : OnBegin_check(t) /\ GhostIds
  \/ \E t \in CThreads : StepEnd(t) /\ GhostIds

SpecIds == InitIds /\ [][NextIds]_vars

\* C16: the ids of the managers handed out are 0, 1, 2, ... in the order of
\* construction, hence pairwise distinct and below MAXTHREADS; a construction
\* that draws an id >= MAXTHREADS returns no manager and ends the process.
C16_IdsDistinctAndBounded ==
  /\ \A i \in DOMAIN hist.ids : hist.ids[i][2] = i - 1
  /\ \A i, j \in DOMAIN hist.ids : hist.ids[i][1] = hist.ids[j][1] => i = j
  /\ \A t \in CThreads :
       pc[t] \notin {"new", "terminated"} =>
         /\ mgr[t].id < MAXTHREADS
         /\ \A u \in CThreads \ {t} : pc[u] # "new" => mgr[u].id # mgr[t].id
  /\ g.idGenerator > MAXTHREADS =>
       /\ \A t \in CThreads : pc[t] = "terminated"
       /\ hist.fatal = 1
       /\ Len(hist.ids) = MAXTHREADS

\* MAXTHREADS managers were handed out, one of their threads was inside a
\* step, and the construction after them ended the process
C16_Witness ==
  /\ Len(hist.ids) = MAXTHREADS /\ hist.fatal = 1
  /\ \A t \in CThreads : pc[t] = "terminated"
  /\ \E i \in 0..(MAXTHREADS - 1) : g.epochs[i] # IDLE

----------------------------------------------------------------------------
(* SpecQuiesce: threads register, begin and end steps, and call quiesce     *)
(* with any time argument; no thread asks for the token                     *)

\* the ids handed out so far
Registered == {i \in 0..(MAXTHREADS - 1) : i < g.idGenerator}
\* slot i is idle or has reached time
Quiet(i, time) == g.epochs[i] = IDLE \/ g.epochs[i] >= time

\* ghost state of SpecQuiesce, per thread, for its latest call of quiesce:
\*   q[t].reg    the other ids that were registered when it was called
\*   q[t].waits  those of them whose slot was below the time argument then
\*   q[t].obs    the ids whose slot the scan has passed over while the slot
\*               was idle or not below the time argument
\*   q[t].ret    "none" until the call returns, then "ok" if every id of reg
\*               is in obs and "early" if not
GhostQuiesce ==
  hist' =
    [q |-> [t \in EThreads |->
           IF pc[t] \notin {"q_cnt", "q_scan"} /\ pc'[t] = "q_cnt"
           THEN [reg |-> Registered \ {mgr[t].id}, obs |-> {}, ret |-> "none",
                 waits |-> {i \in Registered \ {mgr[t].id} : g.epochs[i] < frame'[t].time}]
           ELSE IF pc[t] = "q_scan" /\ frame'[t].i = frame[t].i + 1
           THEN [hist.q[t] EXCEPT !.obs =
                   IF Quiet(frame[t].i, frame[t].time) THEN @ \cup {frame[t].i} ELSE @]
           ELSE IF pc[t] = "q_scan" /\ pc'[t] # "q_scan"
           THEN [hist.q[t] EXCEPT !.ret =
                   IF hist.q[t].reg \subseteq hist.q[t].obs THEN "ok" ELSE "early"]
           ELSE hist.q[t]]]

InitQuiesce ==
  /\ pc = [t \in EThreads |-> "new"]
  /\ clock = 0
  /\ nsteps = [t \in EThreads |-> 0]
  /\ g = Globals
  /\ mgr = [t \in EThreads |-> NoMgr]
  /\ frame = [t \in EThreads |-> NoFrame]
  /\ smr = [pending |-> [t \in EThreads |-> {}], pool |-> [t \in EThreads |-> {}],
            destroyed |-> {}]
  /\ hist = [q |-> [t \in EThreads |->
                      [reg |-> {}, obs |-> {}, ret |-> "none", waits |-> {}]]]
  /\ orec = <<>> /\ locks = <<>> /\ start = <<>> /\ snap = <<>> /\ act = NoAct
  /\ mem = <<>>

NextQuiesce ==
  \/ Tick
  \/ \E t \in EThreads : Construct(t) /\ GhostQuiesce
  \/ \E t \in EThreads : OnBegin(t) /\ GhostQuiesce
  \/ \E t \in EThreads : OnBegin_setEpoch(t) /\ GhostQuiesce
  \/ \E t \in EThreads : OnBegin_check(t) /\ GhostQuiesce
  \/ \E t \in EThreads : StepEnd(t) /\ GhostQuiesce
  \/ \E t \in EThreads, time \in Times : QuiesceAt(t, time) /\ GhostQuiesce
  \/ \E t \in EThreads : Quiesce_count(t) /\ GhostQuiesce
  \/ \E t \in EThreads : Quiesce_scan(t) /\ GhostQuiesce

SpecQuiesce == InitQuiesce /\ [][NextQuiesce]_vars

\* a quiesce that is held at slot i of its scan
Waiting(t, i) ==
  /\ pc[t] = "q_scan" /\ frame[t].i = i /\ i < frame[t].count
  /\ ~(quiesce_others(i, mgr[t].id) => ~quiesce_busy(i, frame[t].time))

\* C13: quiesce(time) returns only after the slot of every other thread that
\* was registered at the call has been seen idle or >= time; it is never held
\* at the caller's own slot nor at an idle slot, whatever the time.
C13_QuiesceWaitsForOthers ==
  \A t \in EThreads :
    /\ hist.q[t].ret # "early"
    /\ \A i \in 0..(MAXTHREADS - 1) :
         Waiting(t, i) => (i # mgr[t].id /\ g.epochs[i] # IDLE /\ g.epochs[i] < frame[t].time)

\* a quiesce called inside a step, with a time above the caller's own epoch,
\* returned after another thread's slot was below the time at the call
C13_Witness ==
  \E t \in EThreads :
    /\ hist.q[t].ret = "ok" /\ hist.q[t].waits # {}
    /\ pc[t] = "step" /\ Slot(t) < IDLE
    /\ \E u \in EThreads \ {t} : mgr[u].id \in hist.q[t].reg /\ Slot(u) = IDLE

----------------------------------------------------------------------------
(* slist_omap<int, int, descriptor, true>: the ordered map of                *)
(* slist_opt_caumap.cc, one action per access to shared memory.  The step   *)
(* operations are the wrappers above; the step's publication is start[t].   *)

\* operations a thread of SpecList may call
MaxOps == 2

LThreads == {1, 2}
Keys == {1, 2}
\* snapshots a thread may have on its stack
MaxSnapshots == 2
\* cfg->snapshot_freq
SNAPSHOT_FREQUENCY == 1

\* the two sentinels; data nodes are numbered from tail + 1 as they are allocated
head == 1
tail == 2
nullptr == 0

\* leq_t / snapshot_t
Leq(obj, ver) == [obj |-> obj, ver |-> ver]
\* node_t / data_t; the sentinels carry no key and no value
Node(key, val, next) == [key |-> key, val |-> val, next |-> next]
\* what an operation returned: its boolean, and the value a get delivered
Ret(ok, val) == [ok |-> ok, val |-> val]

\* the locals of an operation and of the get_leq it calls
NoLocals ==
  [op |-> "none", key |-> 0, val |-> 0, lt_mode |-> FALSE,
   curr |-> Leq(nullptr, 0), next |-> nullptr, nodes_until_snapshot |-> 0,
   n |-> Leq(nullptr, 0), ret |-> Ret(FALSE, 0)]

\* the data nodes linked between head and tail
RECURSIVE Chain(_)
Chain(n) == IF n = tail \/ n = nullptr THEN {} ELSE {n} \cup Chain(mem[n].next)
Linked == Chain(mem[head].next)

\* me->snapshots.top(), me->snapshots.drop()
top(s) == s[Len(s)]
drop(s) == SubSeq(s, 1, Len(s) - 1)

\* an access to a node that was destroyed has no defined behaviour; the
\* thread is followed no further
Destroyed(D) == D \cap smr.destroyed # {}
Undefined(t) ==
  /\ pc' = [pc EXCEPT ![t] = "undefined"]
  /\ UNCHANGED <<orec, locks, start, clock, snap, act, nsteps, g, mgr, frame, smr, mem>>

\* the operation returns to its caller
Returns(t, ok, val) ==
  /\ pc' = [pc EXCEPT ![t] = "idle"]
  /\ frame' = [frame EXCEPT ![t] = [NoLocals EXCEPT !.ret = Ret(ok, val)]]

\* get / insert / remove is called: me->snapshots.clear(), then get_leq
Call(t, op, key) ==
  /\ pc[t] = "idle" /\ nsteps[t] < MaxOps
  /\ nsteps' = [nsteps EXCEPT ![t] = @ + 1]
  /\ frame' = [frame EXCEPT ![t] =
       [NoLocals EXCEPT !.op = op, !.key = key, !.val = t, !.lt_mode = (op = "remove")]]
  /\ snap' = [snap EXCEPT ![t] = <<>>]
  /\ pc' = [pc EXCEPT ![t] = "gl_begin"]
  /\ UNCHANGED <<orec, locks, start, clock, act, g, mgr, smr, mem>>

\* get_leq: RSTEP tx(me); curr = head or the latest snapshot
GetLeq_begin(t) ==
  /\ pc[t] = "gl_begin"
  /\ Apply(RStep_ctor(t))
  /\ frame' = [frame EXCEPT ![t].curr =
       IF snap[t] = <<>> THEN Leq(head, 0) ELSE top(snap[t])]
  /\ pc' = [pc EXCEPT ![t] = "gl_valid"]
  /\ UNCHANGED <<clock, snap, act, nsteps, g, mgr, smr, mem>>

\* the read step of get_leq ends and the outer loop starts over
GetLeq_retry(t) ==
  /\ Apply(RStep_dtor(t))
  /\ pc' = [pc EXCEPT ![t] = "gl_begin"]

\* get_leq returns r to get / insert / remove
GetLeq_return(t, r) ==
  /\ Apply(RStep_dtor(t))
  /\ frame' = [frame EXCEPT ![t].n = r]
  /\ pc' = [pc EXCEPT ![t] =
       CASE frame[t].op = "get" -> "get_key"
         [] frame[t].op = "insert" -> "ins_key"
         [] OTHER -> "rm_begin"]

\* a get_leq that retries on a failed continuation without dropping the snapshot
GetLeq_valid_keep(t) ==
  /\ pc[t] = "gl_valid"
  /\ LET curr == frame[t].curr IN
     IF Destroyed({curr.obj}) THEN Undefined(t)
     ELSE
       /\ IF curr.obj = head
          THEN LET v == Step_check_orec(head) IN
               IF v = END_OF_TIME
               THEN GetLeq_retry(t) /\ UNCHANGED <<frame, snap>>
               ELSE /\ frame' = [frame EXCEPT ![t].curr = Leq(head, v),
                                             ![t].nodes_until_snapshot = SNAPSHOT_FREQUENCY]
                    /\ pc' = [pc EXCEPT ![t] = "gl_next"]
                    /\ UNCHANGED <<orec, locks, start, snap>>
          ELSE IF ~Step_check_continuation(curr.obj, curr.ver)
               THEN GetLeq_retry(t) /\ UNCHANGED <<frame, snap>>
               ELSE /\ frame' = [frame EXCEPT ![t].nodes_until_snapshot = SNAPSHOT_FREQUENCY]
                    /\ pc' = [pc EXCEPT ![t] = "gl_next"]
                    /\ UNCHANGED <<orec, locks, start, snap>>
       /\ UNCHANGED <<clock, act, nsteps, g, mgr, smr, mem>>

\* get_leq: validate the start point
GetLeq_valid(t) ==
  /\ pc[t] = "gl_valid"
  /\ LET curr == frame[t].curr IN
     IF Destroyed({curr.obj}) THEN Undefined(t)
     ELSE
       /\ IF curr.obj = head
          THEN LET v == Step_check_orec(head) IN
               IF v = END_OF_TIME
               THEN GetLeq_retry(t) /\ UNCHANGED <<frame, snap>>
               ELSE /\ frame' = [frame EXCEPT ![t].curr = Leq(head, v),
                                             ![t].nodes_until_snapshot = SNAPSHOT_FREQUENCY]
                    /\ pc' = [pc EXCEPT ![t] = "gl_next"]
                    /\ UNCHANGED <<orec, locks, start, snap>>
          ELSE IF ~Step_check_continuation(curr.obj, curr.ver)
               THEN /\ GetLeq_retry(t)
                    /\ snap' = [snap EXCEPT ![t] = drop(@)]
                    /\ UNCHANGED frame
               ELSE /\ frame' = [frame EXCEPT ![t].nodes_until_snapshot = SNAPSHOT_FREQUENCY]
                    /\ pc' = [pc EXCEPT ![t] = "gl_next"]
                    /\ UNCHANGED <<orec, locks, start, snap>>
       /\ UNCHANGED <<clock, act, nsteps, g, mgr, smr, mem>>

\* a get_leq that compares keys as in leq mode whatever lt_mode says
GetLeq_next_leq(t) ==
  /\ pc[t] = "gl_next"
  /\ LET curr == frame[t].curr
         next == mem[curr.obj].next
         key == frame[t].key
     IN
     IF Destroyed({curr.obj}) \/ (next # tail /\ Destroyed({next})) THEN Undefined(t)
     ELSE
       /\ IF \/ next = tail
             \/ mem[next].key > key
          THEN /\ frame' = [frame EXCEPT ![t].next = next]
               /\ pc' = [pc EXCEPT ![t] = "gl_curr"]
          ELSE IF mem[next].key = key
          THEN /\ frame' = [frame EXCEPT ![t].next = next]
               /\ pc' = [pc EXCEPT ![t] = "gl_match"]
          ELSE IF frame[t].nodes_until_snapshot - 1 = 0
          THEN /\ frame' = [frame EXCEPT ![t].next = next, ![t].nodes_until_snapshot = 0]
               /\ pc' = [pc EXCEPT ![t] = "gl_snap"]
          ELSE /\ frame' = [frame EXCEPT ![t].curr.obj = next,
                                        ![t].nodes_until_snapshot = @ - 1]
               /\ pc' = pc
       /\ UNCHANGED <<orec, locks, start, clock, snap, act, nsteps, g, mgr, smr, mem>>

\* get_leq: next = curr._obj->next.get(tx), then the tests on next and its key
GetLeq_next(t) ==
  /\ pc[t] = "gl_next"
  /\ LET curr == frame[t].curr
         next == mem[curr.obj].next
         key == frame[t].key
     IN
     IF Destroyed({curr.obj}) \/ (next # tail /\ Destroyed({next})) THEN Undefined(t)
     ELSE
       /\ IF \/ next = tail
             \/ (IF frame[t].lt_mode THEN mem[next].key >= key ELSE mem[next].key > key)
          THEN /\ frame' = [frame EXCEPT ![t].next = next]
               /\ pc' = [pc EXCEPT ![t] = "gl_curr"]
          ELSE IF mem[next].key = key
          THEN /\ frame' = [frame EXCEPT ![t].next = next]
               /\ pc' = [pc EXCEPT ![t] = "gl_match"]
          ELSE IF frame[t].nodes_until_snapshot - 1 = 0
          THEN /\ frame' = [frame EXCEPT ![t].next = next, ![t].nodes_until_snapshot = 0]
               /\ pc' = [pc EXCEPT ![t] = "gl_snap"]
          ELSE /\ frame' = [frame EXCEPT ![t].curr.obj = next,
                                        ![t].nodes_until_snapshot = @ - 1]
               /\ pc' = pc
       /\ UNCHANGED <<orec, locks, start, clock, snap, act, nsteps, g, mgr, smr, mem>>

\* get_leq: curr._ver = tx.check_orec(curr._obj), return curr
GetLeq_curr(t) ==
  /\ pc[t] = "gl_curr"
  /\ LET curr == frame[t].curr IN
     IF Destroyed({curr.obj}) THEN Undefined(t)
     ELSE
       /\ LET v == Step_check_orec(curr.obj) IN
          IF v = END_OF_TIME
          THEN GetLeq_retry(t) /\ UNCHANGED frame
          ELSE GetLeq_return(t, Leq(curr.obj, v))
       /\ UNCHANGED <<clock, snap, act, nsteps, g, mgr, smr, mem>>

\* get_leq: next_ver = tx.check_orec(next), return {next, next_ver}
GetLeq_match(t) ==
  /\ pc[t] = "gl_match"
  /\ LET next == frame[t].next IN
     IF Destroyed({next}) THEN Undefined(t)
     ELSE
       /\ LET v == Step_check_orec(next) IN
          IF v = END_OF_TIME
          THEN GetLeq_retry(t) /\ UNCHANGED frame
          ELSE GetLeq_return(t, Leq(next, v))
       /\ UNCHANGED <<clock, snap, act, nsteps, g, mgr, smr, mem>>

\* get_leq: take a snapshot of curr if its orec is usable, then move to next
GetLeq_snap(t) ==
  /\ pc[t] = "gl_snap" /\ Len(snap[t]) < MaxSnapshots
  /\ LET curr == frame[t].curr IN
     IF Destroyed({curr.obj}) THEN Undefined(t)
     ELSE
       /\ LET v == Step_check_orec(curr.obj) IN
          /\ snap' = [snap EXCEPT ![t] =
                        IF v # END_OF_TIME THEN Append(@, Leq(curr.obj, v)) ELSE @]
          /\ frame' = [frame EXCEPT ![t].curr = Leq(frame[t].next, v),
                                    ![t].nodes_until_snapshot = SNAPSHOT_FREQUENCY]
       /\ pc' = [pc EXCEPT ![t] = "gl_next"]
       /\ UNCHANGED <<orec, locks, start, clock, act, nsteps, g, mgr, smr, mem>>

\* get: n._obj == head || n._obj->key != key, outside any step
Get_key(t) ==
  /\ pc[t] = "get_key"
  /\ LET n == frame[t].n IN
     IF n.obj # head /\ Destroyed({n.obj}) THEN Undefined(t)
     ELSE
       /\ IF n.obj = head \/ mem[n.obj].key # frame[t].key
          THEN Returns(t, FALSE, 0)
          ELSE pc' = [pc EXCEPT ![t] = "get_begin"] /\ UNCHANGED frame
       /\ UNCHANGED <<orec, locks, start, clock, snap, act, nsteps, g, mgr, smr, mem>>

\* get: RSTEP tx(me)
Get_begin(t) ==
  /\ pc[t] = "get_begin"
  /\ Apply(RStep_ctor(t))
  /\ pc' = [pc EXCEPT ![t] = "get_val"]
  /\ UNCHANGED <<clock, snap, act, nsteps, g, mgr, frame, smr, mem>>

\* get: load dn->val, check_continuation(n._obj, n._ver), return or continue
Get_val(t) ==
  /\ pc[t] = "get_val"
  /\ LET n == frame[t].n IN
     IF Destroyed({n.obj}) THEN Undefined(t)
     ELSE
       /\ Apply(RStep_dtor(t))
       /\ IF Step_check_continuation(n.obj, n.ver)
          THEN Returns(t, TRUE, mem[n.obj].val)
          ELSE pc' = [pc EXCEPT ![t] = "gl_begin"] /\ UNCHANGED frame
       /\ UNCHANGED <<clock, snap, act, nsteps, g, mgr, smr, mem>>

\* insert: n._obj != head && n._obj->key == key, outside any step
Insert_key(t) ==
  /\ pc[t] = "ins_key"
  /\ LET n == frame[t].n IN
     IF n.obj # head /\ Destroyed({n.obj}) THEN Undefined(t)
     ELSE
       /\ IF n.obj # head /\ mem[n.obj].key = frame[t].key
          THEN Returns(t, FALSE, 0)
          ELSE pc' = [pc EXCEPT ![t] = "ins_begin"] /\ UNCHANGED frame
       /\ UNCHANGED <<orec, locks, start, clock, snap, act, nsteps, g, mgr, smr, mem>>

\* insert: WSTEP tx(me)
Insert_begin(t) ==
  /\ pc[t] = "ins_begin"
  /\ Apply(WStep_ctor(t))
  /\ pc' = [pc EXCEPT ![t] = "ins_acquire"]
  /\ UNCHANGED <<clock, snap, act, nsteps, g, mgr, frame, smr, mem>>

\* insert: acquire_continuation(n._obj, n._ver), else unwind and continue
Insert_acquire(t) ==
  /\ pc[t] = "ins_acquire"
  /\ LET n == frame[t].n IN
     IF Destroyed({n.obj}) THEN Undefined(t)
     ELSE
       /\ LET r == WStep_acquire_continuation(t, n.obj, n.ver) IN
          IF r.ok
          THEN Apply(r) /\ pc' = [pc EXCEPT ![t] = "ins_link"]
          ELSE Apply(WStep_unwind(t)) /\ pc' = [pc EXCEPT ![t] = "gl_begin"]
       /\ UNCHANGED <<clock, snap, act, nsteps, g, mgr, frame, smr, mem>>

\* insert: new data_t(key, val), its next from n, n's next to it
Insert_link(t) ==
  /\ pc[t] = "ins_link"
  /\ LET n == frame[t].n
         new_dn == Cardinality(DOMAIN mem) + 1
     IN
     IF Destroyed({n.obj}) THEN Undefined(t)
     ELSE
       /\ mem' = [x \in DOMAIN mem \cup {new_dn} |->
                    IF x = new_dn THEN Node(frame[t].key, frame[t].val, mem[n.obj].next)
                    ELSE IF x = n.obj THEN [mem[x] EXCEPT !.next = new_dn]
                    ELSE mem[x]]
       /\ orec' = [x \in DOMAIN orec \cup {new_dn} |->
                    IF x = new_dn THEN Unlocked(0) ELSE orec[x]]
       /\ pc' = [pc EXCEPT ![t] = "ins_end"]
       /\ UNCHANGED <<locks, start, clock, snap, act, nsteps, g, mgr, frame, smr>>

\* the write step commits: orecs advance, the reclaim list is stamped with
\* the advanced clock, the publication is cleared
Commit(t) ==
  /\ Apply(WStep_dtor(t))
  /\ clock' = clock + 1
  /\ smr' = smr_commit(t, clock + 1)

\* insert: return true, ~WSTEP
Insert_end(t) ==
  /\ pc[t] = "ins_end"
  /\ Commit(t)
  /\ Returns(t, TRUE, 0)
  /\ UNCHANGED <<snap, act, nsteps, g, mgr, mem>>

\* remove: WSTEP tx(me)
Remove_begin(t) ==
  /\ pc[t] = "rm_begin"
  /\ Apply(WStep_ctor(t))
  /\ pc' = [pc EXCEPT ![t] = "rm_acquire"]
  /\ UNCHANGED <<clock, snap, act, nsteps, g, mgr, frame, smr, mem>>

\* remove: acquire_continuation(prev._obj, prev._ver), curr = prev._obj->next,
\* test of curr and its key
Remove_acquire(t) ==
  /\ pc[t] = "rm_acquire"
  /\ LET prev == frame[t].n
         curr == mem[prev.obj].next
     IN
     IF Destroyed({prev.obj}) THEN Undefined(t)
     ELSE
       /\ LET r == WStep_acquire_continuation(t, prev.obj, prev.ver) IN
          IF ~r.ok
          THEN /\ Apply(WStep_unwind(t))
               /\ pc' = [pc EXCEPT ![t] = "gl_begin"]
               /\ UNCHANGED frame
          ELSE /\ Apply(r)
               /\ frame' = [frame EXCEPT ![t].next = curr]
               /\ pc' = [pc EXCEPT ![t] =
                    IF curr = tail \/ mem[curr].key # frame[t].key
                    THEN "rm_absent" ELSE "rm_aggressive"]
       /\ UNCHANGED <<clock, snap, act, nsteps, g, mgr, smr, mem>>

\* remove: no matching key: unwind, return false
Remove_absent(t) ==
  /\ pc[t] = "rm_absent"
  /\ Apply(WStep_unwind(t))
  /\ Returns(t, FALSE, 0)
  /\ UNCHANGED <<clock, snap, act, nsteps, g, mgr, smr, mem>>

\* remove: acquire_aggressive(curr)
Remove_aggressive(t) ==
  /\ pc[t] = "rm_aggressive"
  /\ LET curr == frame[t].next IN
     IF Destroyed({curr}) THEN Undefined(t)
     ELSE
       /\ LET r == WStep_acquire_aggressive(t, curr) IN
          /\ Apply(r)
          /\ pc' = [pc EXCEPT ![t] = IF r.ok THEN "rm_unlink" ELSE "rm_retry"]
       /\ UNCHANGED <<clock, snap, act, nsteps, g, mgr, frame, smr, mem>>

\* a remove that goes back to get_leq without unwinding when curr could not
\* be locked
Remove_retry_held(t) ==
  /\ pc[t] = "rm_retry"
  /\ pc' = [pc EXCEPT ![t] = "gl_begin"]
  /\ UNCHANGED <<orec, locks, start, clock, snap, act, nsteps, g, mgr, frame, smr, mem>>

\* remove: curr could not be locked: unwind and continue
Remove_retry(t) ==
  /\ pc[t] = "rm_retry"
  /\ Apply(WStep_unwind(t))
  /\ pc' = [pc EXCEPT ![t] = "gl_begin"]
  /\ UNCHANGED <<clock, snap, act, nsteps, g, mgr, frame, smr, mem>>

\* remove: prev._obj->next = curr->next, reclaim(curr)
Remove_unlink(t) ==
  /\ pc[t] = "rm_unlink"
  /\ LET prev == frame[t].n
         curr == frame[t].next
     IN
     IF Destroyed({prev.obj, curr}) THEN Undefined(t)
     ELSE
       /\ mem' = [mem EXCEPT ![prev.obj].next = mem[curr].next]
       /\ smr' = smr_reclaim(t, curr)
       /\ pc' = [pc EXCEPT ![t] = "rm_end"]
       /\ UNCHANGED <<orec, locks, start, clock, snap, act, nsteps, g, mgr, frame>>

\* remove: return true, ~WSTEP
Remove_end(t) ==
  /\ pc[t] = "rm_end"
  /\ Commit(t)
  /\ Returns(t, TRUE, 0)
  /\ UNCHANGED <<snap, act, nsteps, g, mgr, mem>>

\* 4.4 quiesce over the published start times: no other slot is below time
quiesced(t, time) == \A u \in LThreads \ {t} : ~(start[u] < time)

\* 4.5 between two operations the owner of a pool quiesces for its oldest
\* stamp and destroys what is stamped no later
Collect(t) ==
  /\ pc[t] = "idle" /\ smr.pool[t] # {}
  /\ quiesced(t, smr_oldest(t))
  /\ smr' = smr_destroy(t, smr_oldest(t))
  /\ UNCHANGED <<pc, orec, locks, start, clock, snap, act, nsteps, g, mgr, frame, mem>>

(* The sequential ordered map and the history of calls *)

\* the sequential map: key -> value, 0 when absent
EmptyMap == [k \in Keys |-> 0]
\* the effect and result of one operation on the sequential map
MapOp(m, f) ==
  CASE f.op = "get" -> [m |-> m, ret |-> Ret(m[f.key] # 0, m[f.key])]
    [] f.op = "insert" ->
         [m |-> IF m[f.key] = 0 THEN [m EXCEPT ![f.key] = f.val] ELSE m,
          ret |-> Ret(m[f.key] = 0, 0)]
    [] OTHER ->
         [m |-> [m EXCEPT ![f.key] = 0], ret |-> Ret(m[f.key] # 0, 0)]

\* a candidate linearization: the map it has reached, and per thread whether
\* its call is absent, pending, or has taken effect with a result
Idle == [k |-> "idle", ret |-> Ret(FALSE, 0)]
Pending == [k |-> "pending", ret |-> Ret(FALSE, 0)]
Effected(r) == [k |-> "done", ret |-> r]

\* every candidate, and every candidate with one more pending call effected
Linearize(C, F) ==
  C \cup {[m |-> MapOp(c.m, F[t]).m,
           st |-> [c.st EXCEPT ![t] = Effected(MapOp(c.m, F[t]).ret)]] :
            <<c, t>> \in {x \in C \X LThreads : x[1].st[x[2]] = Pending}}

\* ghost state of SpecList:
\*   lin      the candidate linearizations of the history so far
\*   done[t]  the calls of t that returned, with their results and with the
\*            number of calls the other threads had completed at the call
\*   inv[t]   that number for t's current call
GhostList ==
  LET called == {t \in LThreads : pc[t] = "idle" /\ pc'[t] = "gl_begin"}
      returned == {t \in LThreads : pc[t] \notin {"idle", "undefined"} /\ pc'[t] = "idle"}
  IN hist' =
       [lin |->
          IF called # {}
          THEN LET t == CHOOSE t \in called : TRUE IN
               Linearize(Linearize({[c EXCEPT !.st[t] = Pending] : c \in hist.lin},
                                   frame'), frame')
          ELSE IF returned # {}
          THEN LET t == CHOOSE t \in returned : TRUE IN
               {[c EXCEPT !.st[t] = Idle] :
                  c \in {d \in hist.lin : d.st[t] = Effected(frame'[t].ret)}}
          ELSE hist.lin,
        done |-> [t \in LThreads |->
          IF t \in returned
          THEN Append(hist.done[t],
                      [op |-> frame[t].op, key |-> frame[t].key, val |-> frame[t].val,
                       ret |-> frame'[t].ret, inv |-> hist.inv[t]])
          ELSE hist.done[t]],
        inv |-> [t \in LThreads |->
          IF t \in called THEN [u \in LThreads |-> Len(hist.done[u])] ELSE hist.inv[t]]]

\* slist_omap(me, cfg): two sentinels, head->next = tail, nothing else yet
InitList ==
  /\ pc = [t \in LThreads |-> "idle"]
  /\ mem = [x \in {head, tail} |-> Node(0, 0, IF x = head THEN tail ELSE nullptr)]
  /\ orec = [x \in {head, tail} |-> Unlocked(0)]
  /\ locks = [t \in LThreads |-> {}]
  /\ start = [t \in LThreads |-> END_OF_TIME]
  /\ clock = 0
  /\ snap = [t \in LThreads |-> <<>>]
  /\ frame = [t \in LThreads |-> NoLocals]
  /\ nsteps = [t \in LThreads |-> 0]
  /\ smr = [pending |-> [t \in LThreads |-> {}], pool |-> [t \in LThreads |-> {}],
            destroyed |-> {}]
  /\ hist = [lin |-> {[m |-> EmptyMap, st |-> [t \in LThreads |-> Idle]]},
             done |-> [t \in LThreads |-> <<>>],
             inv |-> [t \in LThreads |-> [u \in LThreads |-> 0]]]
  /\ act = NoAct /\ g = <<>> /\ mgr = <<>>

NextList ==
  \/ \E t \in LThreads, k \in Keys : Call(t, "get", k) /\ GhostList
  \/ \E t \in LThreads, k \in Keys : Call(t, "insert", k) /\ GhostList
  \/ \E t \in LThreads, k \in Keys : Call(t, "remove", k) /\ GhostList
  \/ \E t \in LThreads : GetLeq_begin(t) /\ GhostList
  \/ \E t \in LThreads : GetLeq_valid(t) /\ GhostList
  \/ \E t \in LThreads : GetLeq_next(t) /\ GhostList
  \/ \E t \in LThreads : GetLeq_curr(t) /\ GhostList
  \/ \E t \in LThreads : GetLeq_match(t) /\ GhostList
  \/ \E t \in LThreads : GetLeq_snap(t) /\ GhostList
  \/ \E t \in LThreads : Get_key(t) /\ GhostList
  \/ \E t \in LThreads : Get_begin(t) /\ GhostList
  \/ \E t \in LThreads : Get_val(t) /\ GhostList
  \/ \E t \in LThreads : Insert_key(t) /\ GhostList
  \/ \E t \in LThreads : Insert_begin(t) /\ GhostList
  \/ \E t \in LThreads : Insert_acquire(t) /\ GhostList
  \/ \E t \in LThreads : Insert_link(t) /\ GhostList
  \/ \E t \in LThreads : Insert_end(t) /\ GhostList
  \/ \E t \in LThreads : Remove_begin(t) /\ GhostList
  \/ \E t \in LThreads : Remove_acquire(t) /\ GhostList
  \/ \E t \in LThreads : Remove_absent(t) /\ GhostList
  \/ \E t \in LThreads : Remove_aggressive(t) /\ GhostList
  \/ \E t \in LThreads : Remove_retry(t) /\ GhostList
  \/ \E t \in LThreads : Remove_unlink(t) /\ GhostList
  \/ \E t \in LThreads : Remove_end(t) /\ GhostList
  \/ \E t \in LThreads : Collect(t) /\ GhostList

SpecList == InitList /\ [][NextList]_vars

\* C5: no operation of the list accesses a node that has been destroyed,
\* inside a step or between two steps.
C5_NoUseAfterDestroy == \A t \in LThreads : pc[t] # "undefined"

\* no remove of key k has been called so far
NoRemove(k) ==
  \A t \in LThreads :
    /\ ~(frame[t].op = "remove" /\ frame[t].key = k)
    /\ \A i \in DOMAIN hist.done[t] :
         ~(hist.done[t][i].op = "remove" /\ hist.done[t][i].key = k)
\* the first call of t was insert(k) and has returned
FirstInsert(t, k) ==
  /\ Len(hist.done[t]) >= 1
  /\ hist.done[t][1].op = "insert" /\ hist.done[t][1].key = k

\* C8: when the first call of both threads is insert(k) on the empty list,
\* exactly one of the two returns true, the list holds exactly one node with
\* key k, and a get(k) called after both returned delivers the winner's value.
C8_OneInsertWins ==
  \A k \in Keys :
    (NoRemove(k) /\ \A t \in LThreads : FirstInsert(t, k)) =>
      LET won == {t \in LThreads : hist.done[t][1].ret.ok} IN
      /\ Cardinality(won) = 1
      /\ Cardinality({n \in Linked : mem[n].key = k}) = 1
      /\ \A t \in LThreads : \A i \in DOMAIN hist.done[t] :
           LET d == hist.done[t][i] IN
           (d.op = "get" /\ d.key = k /\ \A u \in LThreads : d.inv[u] >= 1) =>
             \E w \in won : d.ret = Ret(TRUE, hist.done[w][1].val)

\* C9: the history of calls and returns so far has a linearization that the
\* sequential ordered map admits.
C9_Linearizable == hist.lin # {}

\* C22: a thread that is in no operation of the list (the list was
\* constructed, or its latest get / insert / remove has returned, by whichever
\* path) holds no orec, no orec names it as owner, and it publishes no step.
C22_NothingHeldAtReturn ==
  \A t \in LThreads :
    pc[t] = "idle" =>
      /\ locks[t] = {}
      /\ \A x \in DOMAIN orec : orec[x] # Locked(t)
      /\ start[t] = END_OF_TIME

\* a remove has returned false, which it does by unwinding the step that held
\* the predecessor's orec, after the same thread's insert had committed, while
\* the other thread holds an orec
C22_Witness ==
  \E t \in LThreads :
    /\ pc[t] = "idle" /\ Len(hist.done[t]) = 2
    /\ hist.done[t][1].op = "insert" /\ hist.done[t][1].ret.ok
    /\ hist.done[t][2].op = "remove" /\ ~hist.done[t][2].ret.ok
    /\ \E u \in LThreads \ {t} : locks[u] # {}

\* C23: whenever the next field of an existing node changes, the thread that
\* wrote it holds that node's orec locked; a data node is written without its
\* orec only when it is allocated, and it becomes reachable only through the
\* next field of a node whose orec its creator holds.
C23_WritesUnderOrec ==
  [][\A t \in LThreads :
       pc'[t] # pc[t] =>
         /\ \A x \in DOMAIN mem : mem'[x].next # mem[x].next => orec[x] = Locked(t)
         /\ \A x \in DOMAIN mem' \ DOMAIN mem :
              /\ x \notin Linked /\ \A n \in DOMAIN mem : mem[n].next # x
              /\ \A n \in DOMAIN mem : mem'[n].next = x => orec[n] = Locked(t)]_vars

\* a remove has unlinked a node from a data node while holding both orecs,
\* and the other thread is inside a traversal
C23_Witness ==
  \E t \in LThreads :
    /\ pc[t] = "rm_end"
    /\ frame[t].n.obj # head /\ orec[frame[t].n.obj] = Locked(t)
    /\ orec[frame[t].next] = Locked(t) /\ frame[t].next \notin Linked
    /\ \E u \in LThreads \ {t} : pc[u] \in {"gl_valid", "gl_next", "gl_curr", "gl_match"}

\* C26: the node get_leq hands to get / insert / remove is neither null nor
\* the tail sentinel: it is the head sentinel or a data node whose key is <=
\* the requested key, and < the requested key in lt_mode.
C26_LeqResult ==
  \A t \in LThreads :
    pc[t] \in {"get_key", "ins_key", "rm_begin"} =>
      LET n == frame[t].n IN
      /\ n.obj \in DOMAIN mem \ {tail}
      /\ \/ n.obj = head
         \/ IF frame[t].lt_mode
            THEN mem[n.obj].key < frame[t].key
            ELSE mem[n.obj].key <= frame[t].key

\* get_leq has handed a data node with a smaller key to a remove, and a data
\* node with the requested key to the other thread's insert
C26_Witness ==
  \E t \in LThreads, u \in LThreads :
    /\ pc[t] = "rm_begin" /\ frame[t].n.obj # head
    /\ mem[frame[t].n.obj].key < frame[t].key
    /\ pc[u] = "ins_key" /\ frame[u].n.obj # head
    /\ mem[frame[u].n.obj].key = frame[u].key

\* the nodes passed to reclaim so far: on a step's list, in a pool, destroyed
Pooled(t) == {r.obj : r \in smr.pool[t]}
Retired == smr.destroyed \cup UNION {smr.pending[t] \cup Pooled(t) : t \in LThreads}

\* C28: remove calls reclaim inside a write step that holds the orecs of the
\* predecessor and of the removed node, after that node was unlinked: a node
\* passed to reclaim is not reachable from head, and it is on one list only.
C28_ReclaimAfterUnlink ==
  /\ \A t \in LThreads :
       pc[t] = "rm_end" =>
         /\ smr.pending[t] = {frame[t].next}
         /\ orec[frame[t].n.obj] = Locked(t) /\ orec[frame[t].next] = Locked(t)
  /\ \A x \in Retired : x \notin Linked
  /\ \A t \in LThreads :
       /\ smr.pending[t] \cap (Pooled(t) \cup smr.destroyed) = {}
       /\ \A u \in LThreads \ {t} :
            (smr.pending[t] \cup Pooled(t)) \cap (smr.pending[u] \cup Pooled(u)) = {}

----------------------------------------------------------------------------
(* SpecResume: a writer inserts and removes the keys of Keys while a walker *)
(* calls get, insert or remove with a larger key, so that its traversals    *)
(* pass data nodes, take snapshots of them and resume from them.  The       *)
(* walker's get finds no node with its key, so the second step of get is    *)
(* never entered here.                                                      *)

Walker == 1
Writer == 2
\* the key of the walker's operations, above every key of the writer
WalkerKey == 3
\* operations the walker and the writer may call
WalkerOps == 1
WriterOps == 4

\* a call that leaves the snapshots of the previous operation on the stack
CallWithin_keep(t, op, key, max) ==
  /\ nsteps[t] < max
  /\ pc[t] = "idle"
  /\ nsteps' = [nsteps EXCEPT ![t] = @ + 1]
  /\ frame' = [frame EXCEPT ![t] =
       [NoLocals EXCEPT !.op = op, !.key = key, !.val = t, !.lt_mode = (op = "remove")]]
  /\ pc' = [pc EXCEPT ![t] = "gl_begin"]
  /\ UNCHANGED <<orec, locks, start, clock, snap, act, g, mgr, smr, mem>>

\* get / insert / remove is called by a thread that may call max operations
CallWithin(t, op, key, max) ==
  /\ nsteps[t] < max
  /\ pc[t] = "idle"
  /\ nsteps' = [nsteps EXCEPT ![t] = @ + 1]
  /\ frame' = [frame EXCEPT ![t] =
       [NoLocals EXCEPT !.op = op, !.key = key, !.val = t, !.lt_mode = (op = "remove")]]
  /\ snap' = [snap EXCEPT ![t] = <<>>]
  /\ pc' = [pc EXCEPT ![t] = "gl_begin"]
  /\ UNCHANGED <<orec, locks, start, clock, act, g, mgr, smr, mem>>

\* where a thread is while a traversal of get_leq is under way, and while the
\* pair get_leq returned has not been used yet
Traversing == {"gl_valid", "gl_next", "gl_curr", "gl_match", "gl_snap"}
Returned == {"get_key", "ins_key", "rm_begin"}

NoRead == [obj |-> nullptr, ver |-> 0]

\* ghost state of SpecResume:
\*   gone      the nodes a committed remove has unlinked and reclaimed
\*   since[t]  gone as it was when t's current traversal began
\*   late[t]   the node of the pair get_leq returned to t was in gone when its
\*             version was read
\*   slate[t]  the same for each snapshot on t's stack
\*   rd[t]     the node whose next field t's traversal read last, with what
\*             check_orec would have returned for it at that moment
\*   left      the snapshots the call made in the latest step discarded
\*   dropped   the thread whose snapshot the latest step dropped, if any
GhostResume ==
  LET T == LThreads
      moved(t) == pc'[t] # pc[t] \/ frame'[t] # frame[t]
      h1 == [t \in T |->
               IF pc[t] = "gl_begin" /\ pc'[t] = "gl_valid" THEN hist.gone
               ELSE IF pc'[t] \in Traversing THEN hist.since[t] ELSE {}]
      h2 == [t \in T |->
               IF pc[t] \in {"gl_curr", "gl_match"} /\ pc'[t] \in Returned
               THEN frame'[t].n.obj \in hist.gone
               ELSE IF pc'[t] \in {"idle", "gl_begin", "undefined"} THEN FALSE
               ELSE hist.late[t]]
      h3 == [t \in T |->
               IF Len(snap'[t]) = Len(snap[t]) + 1
               THEN Append(hist.slate[t], frame[t].curr.obj \in hist.gone)
               ELSE IF Len(snap'[t]) < Len(snap[t])
               THEN SubSeq(hist.slate[t], 1, Len(snap'[t]))
               ELSE hist.slate[t]]
      h4 == [t \in T |->
               IF pc[t] = "gl_next" /\ moved(t) /\ pc'[t] # "undefined"
               THEN [obj |-> frame[t].curr.obj, ver |-> Step_check_orec(frame[t].curr.obj)]
               ELSE IF pc'[t] \in Traversing \cup Returned THEN hist.rd[t]
               ELSE NoRead]
      cl == {t \in T : pc[t] = "idle" /\ pc'[t] = "gl_begin"}
      rm == {t \in T : pc[t] = "rm_end" /\ pc'[t] = "idle"}
      dr == {t \in T : pc[t] = "gl_valid" /\ Len(snap'[t]) < Len(snap[t])}
  IN hist' = [gone |-> hist.gone \cup {frame[t].next : t \in rm},
              since |-> h1, late |-> h2, slate |-> h3, rd |-> h4,
              left |-> IF cl = {} THEN 0 ELSE Len(snap[CHOOSE t \in cl : TRUE]),
              dropped |-> IF dr = {} THEN NoThread ELSE CHOOSE t \in dr : TRUE]

InitResume ==
  /\ pc = [t \in LThreads |-> "idle"]
  /\ mem = [x \in {head, tail} |-> Node(0, 0, IF x = head THEN tail ELSE nullptr)]
  /\ orec = [x \in {head, tail} |-> Unlocked(0)]
  /\ locks = [t \in LThreads |-> {}]
  /\ start = [t \in LThreads |-> END_OF_TIME]
  /\ clock = 0
  /\ snap = [t \in LThreads |-> <<>>]
  /\ frame = [t \in LThreads |-> NoLocals]
  /\ nsteps = [t \in LThreads |-> 0]
  /\ smr = [pending |-> [t \in LThreads |-> {}], pool |-> [t \in LThreads |-> {}],
            destroyed |-> {}]
  /\ hist = [gone |-> {}, since |-> [t \in LThreads |-> {}],
             late |-> [t \in LThreads |-> FALSE],
             slate |-> [t \in LThreads |-> <<>>],
             rd |-> [t \in LThreads |-> NoRead],
             left |-> 0, dropped |-> NoThread]
  /\ act = NoAct /\ g = <<>> /\ mgr = <<>>

NextResume ==
  \/ CallWithin(Walker, "get", WalkerKey, WalkerOps) /\ GhostResume
  \/ CallWithin(Walker, "insert", WalkerKey, WalkerOps) /\ GhostResume
  \/ CallWithin(Walker, "remove", WalkerKey, WalkerOps) /\ GhostResume
  \/ \E k \in Keys : CallWithin(Writer, "insert", k, WriterOps) /\ GhostResume
  \/ \E k \in Keys : CallWithin(Writer, "remove", k, WriterOps) /\ GhostResume
  \/ \E t \in LThreads : GetLeq_begin(t) /\ GhostResume
  \/ \E t \in LThreads : GetLeq_valid(t) /\ GhostResume
  \/ \E t \in LThreads : GetLeq_next(t) /\ GhostResume
  \/ \E t \in LThreads : GetLeq_curr(t) /\ GhostResume
  \/ \E t \in LThreads : GetLeq_match(t) /\ GhostResume
  \/ \E t \in LThreads : GetLeq_snap(t) /\ GhostResume
  \/ \E t \in LThreads : Get_key(t) /\ GhostResume
  \/ \E t \in LThreads : Insert_key(t) /\ GhostResume
  \/ \E t \in LThreads : Insert_begin(t) /\ GhostResume
  \/ \E t \in LThreads : Insert_acquire(t) /\ GhostResume
  \/ \E t \in LThreads : Insert_link(t) /\ GhostResume
  \/ \E t \in LThreads : Insert_end(t) /\ GhostResume
  \/ \E t \in LThreads : Remove_begin(t) /\ GhostResume
  \/ \E t \in LThreads : Remove_acquire(t) /\ GhostResume
  \/ \E t \in LThreads : Remove_absent(t) /\ GhostResume
  \/ \E t \in LThreads : Remove_aggressive(t) /\ GhostResume
  \/ \E t \in LThreads : Remove_retry(t) /\ GhostResume
  \/ \E t \in LThreads : Remove_unlink(t) /\ GhostResume
  \/ \E t \in LThreads : Remove_end(t) /\ GhostResume
  \/ \E t \in LThreads : Collect(t) /\ GhostResume

SpecResume == InitResume /\ [][NextResume]_vars

\* C24: once the step of remove that unlinked and reclaimed a node has
\* committed, (a) no check_continuation or acquire_continuation on that node
\* succeeds with a version that was read before the commit, and (b) no
\* traversal that started or restarted after the commit stands on that node
\* or has read it as the next node.
C24_RemovedNodeUnreachable ==
  /\ [][\A t \in LThreads :
          /\ (/\ pc[t] = "gl_valid" /\ pc'[t] = "gl_next"
              /\ frame[t].curr.obj # head /\ frame[t].curr.obj \in hist.gone)
               => top(hist.slate[t])
          /\ (/\ pc[t] = "ins_acquire" /\ pc'[t] = "ins_link"
              /\ frame[t].n.obj \in hist.gone) => hist.late[t]
          /\ (/\ pc[t] = "rm_acquire" /\ pc'[t] \in {"rm_absent", "rm_aggressive"}
              /\ frame[t].n.obj \in hist.gone) => hist.late[t]]_vars
  /\ [](\A t \in LThreads : pc[t] \in Traversing \ {"gl_valid"} =>
          /\ frame[t].curr.obj \notin hist.since[t]
          /\ pc[t] \in {"gl_curr", "gl_match", "gl_snap"}
               => frame[t].next \notin hist.since[t])

\* C25: when get_leq returns the node whose next field its decision to
\* return was based on, the version it returns with the node is the value
\* check_orec gave for that node's orec at the moment the next field was read.
C25_VersionOfTheRead ==
  \A t \in LThreads :
    (pc[t] \in Returned /\ frame[t].n.obj = hist.rd[t].obj)
      => frame[t].n.ver = hist.rd[t].ver

\* C27 as stated: whenever get_leq resumes with a snapshot on top of the
\* stack, the orec of the snapshot's object is unlocked at the recorded
\* version, and a snapshot for which that is not the case is dropped by the
\* step that finds it out.
C27_NoResumeFromStale ==
  [][\A t \in LThreads :
       (pc[t] = "gl_valid" /\ snap[t] # <<>> /\ pc'[t] \in {"gl_next", "gl_begin"})
         => LET s == top(snap[t]) IN
            IF orec[s.obj] = Unlocked(s.ver)
            THEN pc'[t] = "gl_next" /\ snap'[t] = snap[t]
            ELSE pc'[t] = "gl_begin" /\ snap'[t] = drop(snap[t])]_vars

\* C27: a traversal starts at the newest snapshot, or at the head when there
\* is none.  A snapshot of a data node is resumed from exactly when the
\* node's orec is unlocked at the recorded version; otherwise it is dropped
\* and the traversal starts over with what is left of the stack.  A snapshot
\* of the head is never compared and never dropped: the traversal restarts
\* at the head with the version check_orec returns now, or starts over when
\* the head is locked.
C27_StaleSnapshotDropped ==
  [][\A t \in LThreads :
       /\ (pc[t] = "gl_begin" /\ pc'[t] = "gl_valid")
            => frame'[t].curr = IF snap[t] = <<>> THEN Leq(head, 0) ELSE top(snap[t])
       /\ (pc[t] = "gl_valid" /\ snap[t] # <<>> /\ pc'[t] \in {"gl_next", "gl_begin"})
            => LET s == top(snap[t]) IN
               IF s.obj # head
               THEN IF orec[s.obj] = Unlocked(s.ver)
                    THEN pc'[t] = "gl_next" /\ frame'[t].curr = s /\ snap'[t] = snap[t]
                    ELSE pc'[t] = "gl_begin" /\ snap'[t] = drop(snap[t])
               ELSE /\ snap'[t] = snap[t]
                    /\ IF orec[head].lk THEN pc'[t] = "gl_begin"
                       ELSE /\ pc'[t] = "gl_next"
                            /\ frame'[t].curr = Leq(head, orec[head].val)]_vars

\* the walker has just dropped a snapshot of a data node and is about to
\* start over with an older snapshot
C27_Witness ==
  /\ hist.dropped = Walker /\ pc[Walker] = "gl_begin"
  /\ snap[Walker] # <<>>

\* C29: while a thread is inside get, insert or remove, every snapshot on
\* its stack refers to the head or to a node whose key is smaller than the
\* key of the operation, and the call of each operation empties the stack.
C29_SnapshotsBelowKey ==
  /\ [](\A t \in LThreads : pc[t] \notin {"idle", "undefined"} =>
          \A i \in DOMAIN snap[t] :
            \/ snap[t][i].obj = head
            \/ /\ snap[t][i].obj \notin {nullptr, tail}
               /\ mem[snap[t][i].obj].key < frame[t].key)
  /\ [][\A t \in LThreads :
          (pc[t] = "idle" /\ pc'[t] # "idle") => snap'[t] = <<>>]_vars

\* the writer's call has just discarded the snapshots of its previous
\* operation while the walker's stack holds a snapshot of a data node
C29_Witness ==
  /\ hist.left > 0 /\ pc[Writer] = "gl_begin"
  /\ \E i \in DOMAIN snap[Walker] : snap[Walker][i].obj # head

----------------------------------------------------------------------------
(* SpecWait: quiesce with any time and tryIrrevoc, each called inside a     *)
(* step or outside, next to threads that begin and end steps                *)

\* the threads that run; the third descriptor is never constructed
WThreads == {1, 2}
\* calls of onBegin, tryIrrevoc and quiesce the threads may make in all
WaitCalls == 4

\* a tryIrrevoc that owns the token is held at slot i of its scan
Scanning(t, i) ==
  /\ pc[t] = "ti_scan" /\ frame[t].i = i /\ i < frame[t].count
  /\ tryIrrevoc_others(i, mgr[t].id) /\ tryIrrevoc_busy(i)

\* t is held in a spin-wait at the epoch slot of u
WaitsOn(t, u) ==
  /\ mgr[u].id < MAXTHREADS
  /\ Waiting(t, mgr[u].id) \/ Scanning(t, mgr[u].id)

\* ghost state of SpecWait:
\*   held[t]   the call of quiesce or tryIrrevoc t is in, or has made last,
\*             was held at some slot
\*   out[t]    that call was made outside a step
GhostWait ==
  LET begun(t) == ~InCall(t) /\ pc'[t] \in {"q_cnt", "ti_cas"} IN
  hist' = [held |-> [t \in EThreads |->
                       IF begun(t) THEN FALSE
                       ELSE hist.held[t] \/ \E u \in EThreads : WaitsOn(t, u)],
           out |-> [t \in EThreads |->
                       IF begun(t) THEN pc[t] = "idle" ELSE hist.out[t]]]

InitWait ==
  /\ pc = [t \in EThreads |-> "new"]
  /\ clock = 0
  /\ nsteps = [t \in EThreads |-> 0]
  /\ g = Globals
  /\ mgr = [t \in EThreads |-> NoMgr]
  /\ frame = [t \in EThreads |-> NoFrame]
  /\ smr = [pending |-> [t \in EThreads |-> {}], pool |-> [t \in EThreads |-> {}],
            destroyed |-> {}]
  /\ hist = [held |-> [t \in EThreads |-> FALSE], out |-> [t \in EThreads |-> FALSE]]
  /\ orec = <<>> /\ locks = <<>> /\ start = <<>> /\ snap = <<>> /\ act = NoAct
  /\ mem = <<>>

NextWait ==
  \/ Tick
  \/ \E t \in WThreads : Construct(t) /\ GhostWait
  \/ \E t \in WThreads : OnBeginWithin(t, WaitCalls) /\ GhostWait
  \/ \E t \in WThreads : OnBegin_setEpoch(t) /\ GhostWait
  \/ \E t \in WThreads : OnBegin_check(t) /\ GhostWait
  \/ \E t \in WThreads : OnBegin_clearEpoch(t) /\ GhostWait
  \/ \E t \in WThreads : OnBegin_spin(t) /\ GhostWait
  \/ \E t \in WThreads : StepEnd(t) /\ GhostWait
  \/ \E t \in WThreads : TryIrrevocWithin(t, WaitCalls) /\ GhostWait
  \/ \E t \in WThreads : TryIrrevoc_cas(t) /\ GhostWait
  \/ \E t \in WThreads : TryIrrevoc_count(t) /\ GhostWait
  \/ \E t \in WThreads : TryIrrevoc_scan(t) /\ GhostWait
  \/ \E t \in WThreads : OnCommitIrrevoc(t) /\ GhostWait
  \/ \E t \in WThreads : OnCommitIrrevoc_token(t) /\ GhostWait
  \/ \E t \in WThreads : OnCommitIrrevoc_flag(t) /\ GhostWait
  \/ \E t \in WThreads, time \in Times : QuiesceAtWithin(t, time, WaitCalls) /\ GhostWait
  \/ \E t \in WThreads : Quiesce_count(t) /\ GhostWait
  \/ \E t \in WThreads : Quiesce_scan(t) /\ GhostWait

SpecWait == InitWait /\ [][NextWait]_vars

SpecWaitFair ==
  SpecWait /\ \A t \in WThreads :
    WF_vars((InCall_step(t) \/ Quiesce_count(t) \/ Quiesce_scan(t) \/ StepEnd(t))
            /\ GhostWait)

----------------------------------------------------------------------------
(* SpecRetry: the operations of SpecList, with a record of whether an       *)
(* operation has run alone since it was called.  One thread calls up to     *)
(* WalkerOps operations and the other up to WriterOps, which is what it     *)
(* takes for a remove to unlink a node through a predecessor that was       *)
(* itself removed, and for an operation to run alone afterwards.            *)

\* statements an operation that runs alone executes at most: two for each
\* node get_leq passes, eight around them
SoloSteps == 2 * Cardinality(Keys) + 8

\* following next from n leads to tail within fuel nodes
RECURSIVE Reaches(_, _)
Reaches(n, fuel) ==
  IF n = tail THEN TRUE
  ELSE IF n = nullptr \/ fuel = 0 THEN FALSE
  ELSE Reaches(mem[n].next, fuel - 1)

\* the operations a thread of SpecRetry may call
RetryOps(t) == IF t = Walker THEN WalkerOps ELSE WriterOps

\* the list is as insert and remove mean to leave it: the chain from head
\* ends at tail, its keys increase strictly, and no node on it was passed to
\* reclaim
WellFormed ==
  /\ Reaches(mem[head].next, Cardinality(DOMAIN mem))
  /\ \A n \in Linked : mem[n].next # tail => mem[n].key < mem[mem[n].next].key
  /\ Linked \cap Retired = {}

\* where a thread is while it is in get_leq
InGetLeq == {"gl_begin", "gl_valid", "gl_next", "gl_curr", "gl_match", "gl_snap"}

\* ghost state of SpecRetry:
\*   alone[t] every other thread has been outside any operation since t
\*            called the operation it is in
\*   solo[t]  alone[t], and the list was well formed when t called
\*   cnt[t]   the statements t has executed in that operation while alone
\*   re       the thread that went back to the start of get_leq in the
\*            latest step because an acquire had failed, if any
GhostRetry ==
  LET called(t) == pc[t] = "idle" /\ pc'[t] = "gl_begin"
      quiet(t) == \A u \in LThreads \ {t} : pc[u] = "idle" /\ pc'[u] = "idle"
      s == [t \in LThreads |->
              IF called(t) THEN quiet(t)
              ELSE IF pc'[t] = "idle" THEN FALSE
              ELSE hist.alone[t] /\ quiet(t)]
      re == {t \in LThreads : /\ pc[t] \in {"ins_acquire", "rm_acquire", "rm_retry"}
                               /\ pc'[t] = "gl_begin"}
  IN hist' = [alone |-> s,
              solo |-> [t \in LThreads |->
                          IF called(t) THEN s[t] /\ WellFormed
                          ELSE s[t] /\ hist.solo[t]],
              cnt |-> [t \in LThreads |->
                         IF ~s[t] \/ called(t) THEN 0
                         ELSE IF pc'[t] # pc[t] /\ hist.cnt[t] <= SoloSteps
                         THEN hist.cnt[t] + 1 ELSE hist.cnt[t]],
              re |-> IF re = {} THEN NoThread ELSE CHOOSE t \in re : TRUE]

InitRetry ==
  /\ pc = [t \in LThreads |-> "idle"]
  /\ mem = [x \in {head, tail} |-> Node(0, 0, IF x = head THEN tail ELSE nullptr)]
  /\ orec = [x \in {head, tail} |-> Unlocked(0)]
  /\ locks = [t \in LThreads |-> {}]
  /\ start = [t \in LThreads |-> END_OF_TIME]
  /\ clock = 0
  /\ snap = [t \in LThreads |-> <<>>]
  /\ frame = [t \in LThreads |-> NoLocals]
  /\ nsteps = [t \in LThreads |-> 0]
  /\ smr = [pending |-> [t \in LThreads |-> {}], pool |-> [t \in LThreads |-> {}],
            destroyed |-> {}]
  /\ hist = [alone |-> [t \in LThreads |-> FALSE],
             solo |-> [t \in LThreads |-> FALSE],
             cnt |-> [t \in LThreads |-> 0], re |-> NoThread]
  /\ act = NoAct /\ g = <<>> /\ mgr = <<>>

NextRetry ==
  \/ \E t \in LThreads, k \in Keys : CallWithin(t, "get", k, RetryOps(t)) /\ GhostRetry
  \/ \E t \in LThreads, k \in Keys : CallWithin(t, "insert", k, RetryOps(t)) /\ GhostRetry
  \/ \E t \in LThreads, k \in Keys : CallWithin(t, "remove", k, RetryOps(t)) /\ GhostRetry
  \/ \E t \in LThreads : GetLeq_begin(t) /\ GhostRetry
  \/ \E t \in LThreads : GetLeq_valid(t) /\ GhostRetry
  \/ \E t \in LThreads : GetLeq_next(t) /\ GhostRetry
  \/ \E t \in LThreads : GetLeq_curr(t) /\ GhostRetry
  \/ \E t \in LThreads : GetLeq_match(t) /\ GhostRetry
  \/ \E t \in LThreads : GetLeq_snap(t) /\ GhostRetry
  \/ \E t \in LThreads : Get_key(t) /\ GhostRetry
  \/ \E t \in LThreads : Get_begin(t) /\ GhostRetry
  \/ \E t \in LThreads : Get_val(t) /\ GhostRetry
  \/ \E t \in LThreads : Insert_key(t) /\ GhostRetry
  \/ \E t \in LThreads : Insert_begin(t) /\ GhostRetry
  \/ \E t \in LThreads : Insert_acquire(t) /\ GhostRetry
  \/ \E t \in LThreads : Insert_link(t) /\ GhostRetry
  \/ \E t \in LThreads : Insert_end(t) /\ GhostRetry
  \/ \E t \in LThreads : Remove_begin(t) /\ GhostRetry
  \/ \E t \in LThreads : Remove_acquire(t) /\ GhostRetry
  \/ \E t \in LThreads : Remove_absent(t) /\ GhostRetry
  \/ \E t \in LThreads : Remove_aggressive(t) /\ GhostRetry
  \/ \E t \in LThreads : Remove_retry(t) /\ GhostRetry
  \/ \E t \in LThreads : Remove_unlink(t) /\ GhostRetry
  \/ \E t \in LThreads : Remove_end(t) /\ GhostRetry
  \/ \E t \in LThreads : Collect(t) /\ GhostRetry

SpecRetry == InitRetry /\ [][NextRetry]_vars

C35_SortedChain ==
  (\A o \in DOMAIN orec : ~orec[o].lk) =>
    /\ Reaches(mem[head].next, Cardinality(DOMAIN mem))
    /\ \A n \in Linked :
         mem[n].next # tail => mem[n].key < mem[mem[n].next].key

----------------------------------------------------------------------------
(* SpecGet: the list with get on either of its two paths.  Which path get   *)
(* takes is fixed by the value type of the map: act.ok stands for           *)
(* std::is_scalar<V>::value and never changes.                              *)

\* get, V not scalar: WSTEP tx(me)
Get_wstep(t) ==
  /\ pc[t] = "get_begin"
  /\ Apply(WStep_ctor(t))
  /\ pc' = [pc EXCEPT ![t] = "get_lock"]
  /\ UNCHANGED <<clock, snap, act, nsteps, g, mgr, frame, smr, mem>>

\* get, V not scalar: acquire_continuation(n._obj, n._ver), else unwind and
\* continue
Get_acquire(t) ==
  /\ pc[t] = "get_lock"
  /\ LET n == frame[t].n IN
     IF Destroyed({n.obj}) THEN Undefined(t)
     ELSE
       /\ LET r == WStep_acquire_continuation(t, n.obj, n.ver) IN
          IF r.ok
          THEN Apply(r) /\ pc' = [pc EXCEPT ![t] = "get_read"]
          ELSE Apply(WStep_unwind(t)) /\ pc' = [pc EXCEPT ![t] = "gl_begin"]
       /\ UNCHANGED <<clock, snap, act, nsteps, g, mgr, frame, smr, mem>>

\* a get that lets its write step commit instead of unwinding it
Get_unwind_commit(t) ==
  /\ pc[t] = "get_read"
  /\ Apply(WStep_dtor(t))
  /\ Returns(t, TRUE, mem[frame[t].n.obj].val)
  /\ UNCHANGED <<clock, snap, act, nsteps, g, mgr, smr, mem>>

\* get, V not scalar: val = n._obj->val; tx.unwind(); return true
Get_unwind(t) ==
  /\ pc[t] = "get_read"
  /\ Apply(WStep_unwind(t))
  /\ Returns(t, TRUE, mem[frame[t].n.obj].val)
  /\ UNCHANGED <<clock, snap, act, nsteps, g, mgr, smr, mem>>

\* ghost state of SpecGet:
\*   got   the node whose value the get that returned true in the latest
\*         step has read, nullptr when there is none
GhostGet ==
  LET ret == {t \in LThreads : pc[t] \in {"get_val", "get_read"} /\ pc'[t] = "idle"}
  IN hist' = [got |-> IF ret = {} THEN nullptr
                      ELSE frame[CHOOSE t \in ret : TRUE].n.obj]

InitGet ==
  /\ pc = [t \in LThreads |-> "idle"]
  /\ mem = [x \in {head, tail} |-> Node(0, 0, IF x = head THEN tail ELSE nullptr)]
  /\ orec = [x \in {head, tail} |-> Unlocked(0)]
  /\ locks = [t \in LThreads |-> {}]
  /\ start = [t \in LThreads |-> END_OF_TIME]
  /\ clock = 0
  /\ snap = [t \in LThreads |-> <<>>]
  /\ frame = [t \in LThreads |-> NoLocals]
  /\ nsteps = [t \in LThreads |-> 0]
  /\ smr = [pending |-> [t \in LThreads |-> {}], pool |-> [t \in LThreads |-> {}],
            destroyed |-> {}]
  /\ hist = [got |-> nullptr]
  /\ \E scalar \in BOOLEAN : act = [NoAct EXCEPT !.ok = scalar]
  /\ g = <<>> /\ mgr = <<>>

NextGet ==
  \/ \E t \in LThreads, k \in Keys : Call(t, "get", k) /\ GhostGet
  \/ \E t \in LThreads, k \in Keys : Call(t, "insert", k) /\ GhostGet
  \/ \E t \in LThreads, k \in Keys : Call(t, "remove", k) /\ GhostGet
  \/ \E t \in LThreads : GetLeq_begin(t) /\ GhostGet
  \/ \E t \in LThreads : GetLeq_valid(t) /\ GhostGet
  \/ \E t \in LThreads : GetLeq_next(t) /\ GhostGet
  \/ \E t \in LThreads : GetLeq_curr(t) /\ GhostGet
  \/ \E t \in LThreads : GetLeq_match(t) /\ GhostGet
  \/ \E t \in LThreads : GetLeq_snap(t) /\ GhostGet
  \/ \E t \in LThreads : Get_key(t) /\ GhostGet
  \/ \E t \in LThreads : act.ok /\ Get_begin(t) /\ GhostGet
  \/ \E t \in LThreads : Get_val(t) /\ GhostGet
  \/ \E t \in LThreads : ~act.ok /\ Get_wstep(t) /\ GhostGet
  \/ \E t \in LThreads : Get_acquire(t) /\ GhostGet
  \/ \E t \in LThreads : Get_unwind(t) /\ GhostGet
  \/ \E t \in LThreads : Insert_key(t) /\ GhostGet
  \/ \E t \in LThreads : Insert_begin(t) /\ GhostGet
  \/ \E t \in LThreads : Insert_acquire(t) /\ GhostGet
  \/ \E t \in LThreads : Insert_link(t) /\ GhostGet
  \/ \E t \in LThreads : Insert_end(t) /\ GhostGet
  \/ \E t \in LThreads : Remove_begin(t) /\ GhostGet
  \/ \E t \in LThreads : Remove_acquire(t) /\ GhostGet
  \/ \E t \in LThreads : Remove_absent(t) /\ GhostGet
  \/ \E t \in LThreads : Remove_aggressive(t) /\ GhostGet
  \/ \E t \in LThreads : Remove_retry(t) /\ GhostGet
  \/ \E t \in LThreads : Remove_unlink(t) /\ GhostGet
  \/ \E t \in LThreads : Remove_end(t) /\ GhostGet
  \/ \E t \in LThreads : Collect(t) /\ GhostGet

SpecGet == InitGet /\ [][NextGet]_vars

\* C36: no step of a get changes a next field, and the only changes it makes
\* to an orec are to lock it, remembering the version it had, and to unlock
\* it at that version; when the get returns it holds no orec.
C36_GetChangesNothing ==
  [][\A t \in LThreads :
       (frame[t].op = "get" /\ pc'[t] # pc[t]) =>
         /\ mem' = mem
         /\ \A o \in DOMAIN orec :
              \/ orec'[o] = orec[o]
              \/ /\ ~orec[o].lk /\ orec'[o] = Locked(t)
                 /\ \E l \in locks'[t] : l.obj = o /\ l.prev = orec[o].val
              \/ /\ orec[o] = Locked(t)
                 /\ \E l \in locks[t] : l.obj = o /\ orec'[o] = Unlocked(l.prev)
         /\ pc'[t] = "idle" =>
              locks'[t] = {} /\ \A o \in DOMAIN orec : orec'[o] # Locked(t)]_vars

\* a get on the write-step path has just returned true, and the pair that
\* get_leq returned to another thread for the node the get had locked is
\* still what the node's orec holds
C36_Witness ==
  /\ hist.got # nullptr /\ ~act.ok
  /\ \E u \in LThreads :
       /\ pc[u] \in {"ins_begin", "ins_acquire", "rm_begin", "rm_acquire"}
       /\ frame[u].n.obj = hist.got
       /\ orec[hist.got] = Unlocked(frame[u].n.ver)

----------------------------------------------------------------------------
(* SpecRemove: the list with the history of two removes contending for one  *)
(* key.                                                                      *)

\* the key is in the list
Present(k) == \E n \in Linked : mem[n].key = k

\* ghost state of SpecRemove:
\*   pres  the call in progress is a remove of a key that was in the list
\*         when it was called
\*   key   the key two removes in progress contend for, both called while
\*         it was in the list and no call made since; 0 when there is none
\*   res   what each of the contending removes returned
GhostRemove ==
  LET called(t) == pc[t] = "idle" /\ pc'[t] = "gl_begin"
      returned(t) == pc[t] # "idle" /\ pc'[t] = "idle"
      anycall == \E t \in LThreads : called(t)
      pres == [t \in LThreads |->
                 IF called(t)
                 THEN frame'[t].op = "remove" /\ Present(frame'[t].key)
                 ELSE hist.pres[t]]
      contend(t) == \E u \in LThreads \ {t} :
                       /\ pres[t] /\ hist.pres[u] /\ pc[u] \notin {"idle", "undefined"}
                       /\ frame[u].op = "remove" /\ frame[u].key = frame'[t].key
  IN hist' = [pres |-> pres,
              key |-> IF anycall
                      THEN LET t == CHOOSE t \in LThreads : called(t)
                           IN IF contend(t) THEN frame'[t].key ELSE 0
                      ELSE hist.key,
              res |-> [t \in LThreads |->
                         IF anycall THEN "none"
                         ELSE IF returned(t) /\ hist.key # 0
                         THEN (IF frame'[t].ret.ok THEN "true" ELSE "false")
                         ELSE hist.res[t]]]

InitRemove ==
  /\ pc = [t \in LThreads |-> "idle"]
  /\ mem = [x \in {head, tail} |-> Node(0, 0, IF x = head THEN tail ELSE nullptr)]
  /\ orec = [x \in {head, tail} |-> Unlocked(0)]
  /\ locks = [t \in LThreads |-> {}]
  /\ start = [t \in LThreads |-> END_OF_TIME]
  /\ clock = 0
  /\ snap = [t \in LThreads |-> <<>>]
  /\ frame = [t \in LThreads |-> NoLocals]
  /\ nsteps = [t \in LThreads |-> 0]
  /\ smr = [pending |-> [t \in LThreads |-> {}], pool |-> [t \in LThreads |-> {}],
            destroyed |-> {}]
  /\ hist = [pres |-> [t \in LThreads |-> FALSE], key |-> 0,
             res |-> [t \in LThreads |-> "none"]]
  /\ act = NoAct /\ g = <<>> /\ mgr = <<>>

NextRemove ==
  \/ \E t \in LThreads, k \in Keys : Call(t, "get", k) /\ GhostRemove
  \/ \E t \in LThreads, k \in Keys : Call(t, "insert", k) /\ GhostRemove
  \/ \E t \in LThreads, k \in Keys : Call(t, "remove", k) /\ GhostRemove
  \/ \E t \in LThreads : GetLeq_begin(t) /\ GhostRemove
  \/ \E t \in LThreads : GetLeq_valid(t) /\ GhostRemove
  \/ \E t \in LThreads : GetLeq_next(t) /\ GhostRemove
  \/ \E t \in LThreads : GetLeq_curr(t) /\ GhostRemove
  \/ \E t \in LThreads : GetLeq_match(t) /\ GhostRemove
  \/ \E t \in LThreads : GetLeq_snap(t) /\ GhostRemove
  \/ \E t \in LThreads : Get_key(t) /\ GhostRemove
  \/ \E t \in LThreads : Get_begin(t) /\ GhostRemove
  \/ \E t \in LThreads : Get_val(t) /\ GhostRemove
  \/ \E t \in LThreads : Insert_key(t) /\ GhostRemove
  \/ \E t \in LThreads : Insert_begin(t) /\ GhostRemove
  \/ \E t \in LThreads : Insert_acquire(t) /\ GhostRemove
  \/ \E t \in LThreads : Insert_link(t) /\ GhostRemove
  \/ \E t \in LThreads : Insert_end(t) /\ GhostRemove
  \/ \E t \in LThreads : Remove_begin(t) /\ GhostRemove
  \/ \E t \in LThreads : Remove_acquire(t) /\ GhostRemove
  \/ \E t \in LThreads : Remove_absent(t) /\ GhostRemove
  \/ \E t \in LThreads : Remove_aggressive(t) /\ GhostRemove
  \/ \E t \in LThreads : Remove_retry(t) /\ GhostRemove
  \/ \E t \in LThreads : Remove_unlink(t) /\ GhostRemove
  \/ \E t \in LThreads : Remove_end(t) /\ GhostRemove
  \/ \E t \in LThreads : Collect(t) /\ GhostRemove

SpecRemove == InitRemove /\ [][NextRemove]_vars

\* C37: of two removes of one key that were both called while the key was in
\* the list and ran at the same time, exactly one returns true.
C37_OneRemoveWins ==
  (hist.key # 0 /\ \A t \in LThreads : hist.res[t] # "none") =>
    Cardinality({t \in LThreads : hist.res[t] = "true"}) = 1

----------------------------------------------------------------------------
(* SpecPush: CCSTMEpochManager.  Threads construct their managers, each      *)
(* pushing its descriptor onto the list at all_threads, and threads whose    *)
(* manager is constructed walk the list in quiesce.  A descriptor is named   *)
(* by its thread; quiesce is called with time 0, for which the wait on a     *)
(* start time (line 900) never spins.                                        *)

PThreads == {1, 2, 3}
MaxWalks == 1

Constructing == {"cc_load", "cc_next", "cc_cas"}

\* constructor: curr_head = globals.all_threads.load()
CC_load(t) ==
  /\ pc[t] = "cc_load"
  /\ frame' = [frame EXCEPT ![t].curr_head = g.all_threads]
  /\ pc' = [pc EXCEPT ![t] = "cc_next"]
  /\ UNCHANGED <<orec, locks, start, clock, snap, act, nsteps, g, mgr, smr, mem>>

\* constructor: next = curr_head
CC_next(t) ==
  /\ pc[t] = "cc_next"
  /\ mgr' = [mgr EXCEPT ![t].next = frame[t].curr_head]
  /\ pc' = [pc EXCEPT ![t] = "cc_cas"]
  /\ UNCHANGED <<orec, locks, start, clock, snap, act, nsteps, g, frame, smr, mem>>

\* a constructor that stores me in all_threads without comparing
CC_cas_store(t) ==
  /\ pc[t] = "cc_cas"
  /\ g' = [g EXCEPT !.all_threads = t]
  /\ pc' = [pc EXCEPT ![t] = "ready"]
  /\ UNCHANGED <<orec, locks, start, clock, snap, act, nsteps, mgr, frame, smr, mem>>

\* constructor: compare_exchange_strong(curr_head, me), break or loop
CC_cas(t) ==
  /\ pc[t] = "cc_cas"
  /\ IF g.all_threads = frame[t].curr_head
     THEN /\ g' = [g EXCEPT !.all_threads = t]
          /\ pc' = [pc EXCEPT ![t] = "ready"]
          /\ UNCHANGED frame
     ELSE /\ frame' = [frame EXCEPT ![t].curr_head = g.all_threads]
          /\ pc' = [pc EXCEPT ![t] = "cc_load"]
          /\ UNCHANGED g
  /\ UNCHANGED <<orec, locks, start, clock, snap, act, nsteps, mgr, smr, mem>>

\* quiesce(0, me, globals): curr = globals.all_threads.load()
CC_quiesce(t) ==
  /\ pc[t] = "ready" /\ nsteps[t] < MaxWalks
  /\ nsteps' = [nsteps EXCEPT ![t] = @ + 1]
  /\ frame' = [frame EXCEPT ![t].curr = g.all_threads]
  /\ pc' = [pc EXCEPT ![t] = "qz_walk"]
  /\ UNCHANGED <<orec, locks, start, clock, snap, act, g, mgr, smr, mem>>

\* quiesce: while (curr != nullptr): no wait for time 0; curr = curr->epoch.next
CC_quiesce_next(t) ==
  /\ pc[t] = "qz_walk" /\ frame[t].curr # nullptr
  /\ frame' = [frame EXCEPT ![t].curr = mgr[frame[t].curr].next]
  /\ UNCHANGED <<pc, orec, locks, start, clock, snap, act, nsteps, g, mgr, smr, mem>>

\* quiesce: curr == nullptr, return
CC_quiesce_end(t) ==
  /\ pc[t] = "qz_walk" /\ frame[t].curr = nullptr
  /\ pc' = [pc EXCEPT ![t] = "ready"]
  /\ UNCHANGED <<orec, locks, start, clock, snap, act, nsteps, g, mgr, frame, smr, mem>>

\* the descriptors met when following next from n, at most k of them
RECURSIVE PushList(_, _)
PushList(n, k) ==
  IF n = nullptr \/ k = 0 THEN <<>> ELSE <<n>> \o PushList(mgr[n].next, k - 1)

\* ghost state of SpecPush:
\*   lost  some compare_exchange of a constructor has failed
\*   seen  the descriptors the walk in progress (or the last one) has met
\*   reg   the threads whose constructor had returned when the walk began
GhostPush ==
  hist' = [lost |-> hist.lost \/ \E t \in PThreads : pc[t] = "cc_cas" /\ pc'[t] = "cc_load",
           seen |-> [t \in PThreads |->
                       IF pc[t] = "ready" /\ pc'[t] = "qz_walk" THEN <<>>
                       ELSE IF pc[t] = "qz_walk" /\ frame'[t] # frame[t]
                       THEN Append(hist.seen[t], frame[t].curr)
                       ELSE hist.seen[t]],
           reg |-> [t \in PThreads |->
                      IF pc[t] = "ready" /\ pc'[t] = "qz_walk"
                      THEN {u \in PThreads : pc[u] \notin Constructing}
                      ELSE hist.reg[t]]]

InitPush ==
  /\ pc = [t \in PThreads |-> "cc_load"]
  /\ g = [all_threads |-> nullptr, token |-> 0]
  /\ mgr = [t \in PThreads |-> [hasToken |-> FALSE, next |-> nullptr]]
  /\ frame = [t \in PThreads |-> [curr_head |-> nullptr, curr |-> nullptr]]
  /\ nsteps = [t \in PThreads |-> 0]
  /\ hist = [lost |-> FALSE, seen |-> [t \in PThreads |-> <<>>],
             reg |-> [t \in PThreads |-> {}]]
  /\ orec = <<>> /\ locks = <<>> /\ start = <<>> /\ clock = 0 /\ snap = <<>>
  /\ act = NoAct /\ smr = <<>> /\ mem = <<>>

NextPush ==
  \/ \E t \in PThreads : CC_load(t) /\ GhostPush
  \/ \E t \in PThreads : CC_next(t) /\ GhostPush
  \/ \E t \in PThreads : CC_cas(t) /\ GhostPush
  \/ \E t \in PThreads : CC_quiesce(t) /\ GhostPush
  \/ \E t \in PThreads : CC_quiesce_next(t) /\ GhostPush
  \/ \E t \in PThreads : CC_quiesce_end(t) /\ GhostPush

SpecPush == InitPush /\ [][NextPush]_vars

\* C38: the list from all_threads ends at nullptr, holds no descriptor twice,
\* and holds exactly the descriptors of the threads whose constructor has
\* returned; a walk of the list that has ended has met every descriptor that
\* was registered when it began, none of them twice.
C38_PushLosesNothing ==
  LET l == PushList(g.all_threads, Cardinality(PThreads) + 1) IN
  /\ Len(l) <= Cardinality(PThreads)
  /\ \A i, j \in 1..Len(l) : l[i] = l[j] => i = j
  /\ {l[i] : i \in 1..Len(l)} = {t \in PThreads : pc[t] \notin Constructing}
  /\ \A t \in PThreads :
       /\ \A i, j \in 1..Len(hist.seen[t]) : hist.seen[t][i] = hist.seen[t][j] => i = j
       /\ (pc[t] = "ready" /\ nsteps[t] > 0) =>
            hist.reg[t] \subseteq {hist.seen[t][i] : i \in 1..Len(hist.seen[t])}

\* every thread has constructed its manager, a compare_exchange had failed
\* on the way, and a walk that began before the last registration has ended
C38_Witness ==
  /\ \A t \in PThreads : pc[t] \notin Constructing
  /\ hist.lost
  /\ \E t \in PThreads :
       /\ pc[t] = "ready" /\ nsteps[t] > 0
       /\ hist.reg[t] # PThreads /\ Len(hist.seen[t]) >= 2

----------------------------------------------------------------------------
(* The ticket lock of the external binary search tree (the second half of   *)
(* slist_omap.h).  A lock word has two sides, each a 16-bit version and a   *)
(* 16-bit ticket; the arithmetic is that of uint16_t.                       *)

U16 == 2^16
Sides == {0, 1}

tl32(version, ticket) == [version |-> version, ticket |-> ticket]

\* a lock word with both sides free at version v
tl_free(v) == [s \in Sides |-> tl32(v, v)]

\* #define TLN_REMOVED: version 0 and ticket 0xFFFF on both sides
TLN_REMOVED == [s \in Sides |-> tl32(0, U16 - 1)]

\* a trylock that takes the side whenever the captured word shows it free,
\* without comparing the word in memory
tl_trylock_version_blind(tl, tl_old, right) ==
  LET version == tl_old[right].version IN
  IF version # tl_old[right].ticket
  THEN [ok |-> FALSE, tl |-> tl]
  ELSE [ok |-> TRUE,
        tl |-> [tl EXCEPT ![right] = tl32(tl[right].version, (tl[right].version + 1) % U16)]]

\* tl_trylock_version(tl, tl_old, right): the version of the captured word,
\* a test that the captured side was free, and a compare-and-swap of the
\* side from {version, version} to {version, version + 1}
tl_trylock_version(tl, tl_old, right) ==
  LET version == tl_old[right].version
      tlo == tl32(version, version)
      tln == tl32(version, (version + 1) % U16)
  IN IF version # tl_old[right].ticket
     THEN [ok |-> FALSE, tl |-> tl]
     ELSE IF tl[right] = tlo
     THEN [ok |-> TRUE, tl |-> [tl EXCEPT ![right] = tln]]
     ELSE [ok |-> FALSE, tl |-> tl]

\* tl_trylock_version_both(tl, tl_old): both captured sides free, and a
\* compare-and-swap of the whole word from the captured one to TLN_REMOVED
tl_trylock_version_both(tl, tl_old) ==
  IF tl_old[0].version # tl_old[0].ticket \/ tl_old[1].version # tl_old[1].ticket
  THEN [ok |-> FALSE, tl |-> tl]
  ELSE IF tl = tl_old
  THEN [ok |-> TRUE, tl |-> TLN_REMOVED]
  ELSE [ok |-> FALSE, tl |-> tl]

\* tl_unlock(tl, right): version = version + 1
tl_unlock(tl, right) == [tl EXCEPT ![right].version = (@ + 1) % U16]

\* a revert that gives the side up as tl_unlock does
tl_revert_forward(tl, right) == [tl EXCEPT ![right].version = (@ + 1) % U16]

\* tl_revert(tl, right): ticket = ticket - 1
tl_revert(tl, right) == [tl EXCEPT ![right].ticket = (@ + U16 - 1) % U16]

----------------------------------------------------------------------------
(* SpecTicket: insert_internal on one side of one node.  The keys inserted  *)
(* are absent and below the key of the node, so every insert takes the left *)
(* side of its lock.  Thread Stalled has read the lock word of the node on  *)
(* its way down; it makes no further call and at most MaxDescents descents. *)
(* The threads in Cyclers insert for ever.                                   *)

KThreads == {1, 2}
Stalled == 1
Cyclers == KThreads \ {Stalled}
Pred == 1
MaxDescents == 1

\* insert_internal is called; retry: curr = root
TK_insert(t) ==
  /\ t \in Cyclers /\ pc[t] = "tk_idle"
  /\ pc' = [pc EXCEPT ![t] = "tk_retry"]
  /\ UNCHANGED <<orec, locks, start, clock, snap, act, nsteps, g, mgr, frame, smr, mem>>

\* insert_internal: the descent: pred = curr, pred_ver = curr->lock.to_uint64,
\* right = 0 and curr = curr->left as key < pred->key
TK_descend(t) ==
  /\ pc[t] = "tk_retry"
  /\ t \in Cyclers \/ nsteps[t] < MaxDescents
  /\ nsteps' = [nsteps EXCEPT ![t] = IF t \in Cyclers THEN @ ELSE @ + 1]
  /\ frame' = [frame EXCEPT ![t] =
       [pred_ver |-> mem[Pred].lock, right |-> 0, curr |-> mem[Pred].left]]
  /\ pc' = [pc EXCEPT ![t] = "tk_try"]
  /\ UNCHANGED <<orec, locks, start, clock, snap, act, g, mgr, smr, mem>>

\* insert_internal: tl_trylock_version(&pred->lock, &pred_ver, right), else
\* goto retry
TK_trylock(t) ==
  /\ pc[t] = "tk_try"
  /\ LET r == tl_trylock_version(mem[Pred].lock, frame[t].pred_ver, frame[t].right) IN
     /\ mem' = [mem EXCEPT ![Pred].lock = r.tl]
     /\ pc' = [pc EXCEPT ![t] = IF r.ok THEN "tk_link" ELSE "tk_retry"]
  /\ UNCHANGED <<orec, locks, start, clock, snap, act, nsteps, g, mgr, frame, smr>>

\* insert_internal: pred->left = nr, the node the thread has made;
\* tl_unlock(&pred->lock, right); return
TK_unlock(t) ==
  /\ pc[t] = "tk_link"
  /\ mem' = [mem EXCEPT ![Pred].lock = tl_unlock(@, frame[t].right),
                        ![Pred].left = t]
  /\ pc' = [pc EXCEPT ![t] = "tk_idle"]
  /\ UNCHANGED <<orec, locks, start, clock, snap, act, nsteps, g, mgr, frame, smr>>

\* ghost state of SpecTicket:
\*   unl   the number of tl_unlock calls on the side since the thread read
\*         the lock word, counted up to 2^16
GhostTicket ==
  LET unlocked == \E u \in KThreads : pc[u] = "tk_link" /\ pc'[u] = "tk_idle" IN
  hist' = [unl |-> [t \in KThreads |->
                      IF pc[t] = "tk_retry" /\ pc'[t] = "tk_try" THEN 0
                      ELSE IF unlocked /\ hist.unl[t] < U16 THEN hist.unl[t] + 1
                      ELSE hist.unl[t]]]

InitTicket ==
  /\ pc = [t \in KThreads |-> IF t = Stalled THEN "tk_try" ELSE "tk_idle"]
  /\ mem = [n \in {Pred} |-> [lock |-> tl_free(0), left |-> 0]]
  /\ frame = [t \in KThreads |-> [pred_ver |-> tl_free(0), right |-> 0, curr |-> 0]]
  /\ hist = [unl |-> [t \in KThreads |-> 0]]
  /\ orec = <<>> /\ locks = <<>> /\ start = <<>> /\ clock = 0 /\ snap = <<>>
  /\ nsteps = [t \in KThreads |-> IF t = Stalled THEN 1 ELSE 0]
  /\ act = NoAct /\ g = <<>> /\ mgr = <<>> /\ smr = <<>>

NextTicket ==
  \/ \E t \in KThreads : TK_insert(t) /\ GhostTicket
  \/ \E t \in KThreads : TK_descend(t) /\ GhostTicket
  \/ \E t \in KThreads : TK_trylock(t) /\ GhostTicket
  \/ \E t \in KThreads : TK_unlock(t) /\ GhostTicket

SpecTicket == InitTicket /\ [][NextTicket]_vars

\* C39 as stated: a thread whose tl_trylock_version has succeeded holds the
\* side with no tl_unlock of that side since it read the lock word.
C39_NoUnlockSinceCapture ==
  \A t \in KThreads : pc[t] = "tk_link" => hist.unl[t] = 0

\* C39: the side is free iff version == ticket and held iff ticket ==
\* version + 1 (mod 2^16); at most one thread holds it; a tl_trylock_version
\* that has succeeded found the side's word equal to the word the thread had
\* read: the side was unlocked either not at all or at least 2^16 times in
\* between.
C39_TicketLock ==
  LET w == mem[Pred].lock[0]
      holders == {t \in KThreads : pc[t] = "tk_link"}
  IN /\ Cardinality(holders) <= 1
     /\ (holders = {}) <=> (w.version = w.ticket)
     /\ (holders # {}) <=> (w.ticket = (w.version + 1) % U16)
     /\ \A t \in holders :
          /\ frame[t].pred_ver[0] = tl32(w.version, w.version)
          /\ hist.unl[t] \in {0, U16}

\* the stalled thread holds the side after the version has gone round, and
\* the child it had read is no longer the child of the node
C39_Witness ==
  /\ pc[Stalled] = "tk_link" /\ hist.unl[Stalled] = U16
  /\ mem[Pred].lock[0] = tl32(0, 1)
  /\ frame[Stalled].curr # mem[Pred].left

----------------------------------------------------------------------------
(* SpecUnlink: the external binary search tree with ticket locks.  Nodes    *)
(* are numbered; root, _min and _max are the nodes the constructor makes.   *)
(* A node that was unlinked stays in memory: reclaim defers its release     *)
(* past every operation that can still reach it.                            *)

BThreads == {1, 2}
BKeys == {1, 2}
KEY_MIN == 0
KEY_MAX == 3
MaxTreeOps == 2

root == 1
node_min == 2
node_max == 3

node_t(key, left, right) == [key |-> key, left |-> left, right |-> right, lock |-> tl_free(0)]

BLocals ==
  [op |-> "none", key |-> 0, curr |-> nullptr, pred |-> nullptr, ppred |-> nullptr,
   curr_ver |-> tl_free(0), pred_ver |-> tl_free(0), ppred_ver |-> tl_free(0),
   right |-> 0, pright |-> 0]

\* node->left or node->right
child(n, right) == IF right = 1 THEN mem[n].right ELSE mem[n].left

\* insert(k, v) / remove(k) is called; the locals of insert_internal /
\* remove_internal
BT_call(t, op, key) ==
  /\ pc[t] = "idle" /\ nsteps[t] < MaxTreeOps
  /\ nsteps' = [nsteps EXCEPT ![t] = @ + 1]
  /\ frame' = [frame EXCEPT ![t] = [BLocals EXCEPT !.op = op, !.key = key]]
  /\ pc' = [pc EXCEPT ![t] = "bt_retry"]
  /\ UNCHANGED <<orec, locks, start, clock, snap, act, g, mgr, smr, mem>>

\* retry: curr = root
BT_retry(t) ==
  /\ pc[t] = "bt_retry"
  /\ frame' = [frame EXCEPT ![t].curr = root]
  /\ pc' = [pc EXCEPT ![t] = "bt_ver"]
  /\ UNCHANGED <<orec, locks, start, clock, snap, act, nsteps, g, mgr, smr, mem>>

\* do: curr_ver = curr->lock.to_uint64; ppred = pred; ppred_ver = pred_ver;
\* pright = right; pred = curr; pred_ver = curr_ver
BT_ver(t) ==
  /\ pc[t] = "bt_ver"
  /\ LET f == frame[t] IN
     frame' = [frame EXCEPT ![t] =
       [f EXCEPT !.curr_ver = mem[f.curr].lock,
                 !.ppred = f.pred, !.ppred_ver = f.pred_ver, !.pright = f.right,
                 !.pred = f.curr, !.pred_ver = mem[f.curr].lock]]
  /\ pc' = [pc EXCEPT ![t] = "bt_child"]
  /\ UNCHANGED <<orec, locks, start, clock, snap, act, nsteps, g, mgr, smr, mem>>

\* right = !(key < curr->key); curr = curr->left or curr->right;
\* while (curr->left != NULL); then the test of curr->key
BT_child(t) ==
  /\ pc[t] = "bt_child"
  /\ LET f == frame[t]
         right == IF f.key < mem[f.curr].key THEN 0 ELSE 1
         curr == child(f.curr, right)
     IN /\ frame' = [frame EXCEPT ![t].right = right, ![t].curr = curr]
        /\ pc' = [pc EXCEPT ![t] =
             IF mem[curr].left # nullptr THEN "bt_ver"
             ELSE IF f.op = "insert"
             THEN (IF mem[curr].key = f.key THEN "idle" ELSE "bt_ins_try")
             ELSE (IF mem[curr].key # f.key THEN "idle" ELSE "bt_rm_try")]
  /\ UNCHANGED <<orec, locks, start, clock, snap, act, nsteps, g, mgr, smr, mem>>

\* insert_internal: tl_trylock_version(&pred->lock, &pred_ver, right), else
\* goto retry
BT_ins_try(t) ==
  /\ pc[t] = "bt_ins_try"
  /\ LET f == frame[t]
         r == tl_trylock_version(mem[f.pred].lock, f.pred_ver, f.right)
     IN /\ mem' = [mem EXCEPT ![f.pred].lock = r.tl]
        /\ pc' = [pc EXCEPT ![t] = IF r.ok THEN "bt_ins_link" ELSE "bt_retry"]
  /\ UNCHANGED <<orec, locks, start, clock, snap, act, nsteps, g, mgr, frame, smr>>

\* insert_internal: nn and nr, made before the trylock and numbered here,
\* where they become reachable; pred->left or pred->right = nr
BT_ins_link(t) ==
  /\ pc[t] = "bt_ins_link"
  /\ LET f == frame[t]
         nn == Cardinality(DOMAIN mem) + 1
         nr == Cardinality(DOMAIN mem) + 2
         new == IF f.key < mem[f.curr].key
                THEN node_t(mem[f.curr].key, nn, f.curr)
                ELSE node_t(f.key, f.curr, nn)
     IN mem' = [n \in DOMAIN mem \cup {nn, nr} |->
                  IF n = nn THEN node_t(f.key, nullptr, nullptr)
                  ELSE IF n = nr THEN new
                  ELSE IF n = f.pred
                  THEN (IF f.right = 1 THEN [mem[n] EXCEPT !.right = nr]
                        ELSE [mem[n] EXCEPT !.left = nr])
                  ELSE mem[n]]
  /\ pc' = [pc EXCEPT ![t] = "bt_ins_unlock"]
  /\ UNCHANGED <<orec, locks, start, clock, snap, act, nsteps, g, mgr, frame, smr>>

\* insert_internal: tl_unlock(&pred->lock, right); return NO_VALUE
BT_ins_unlock(t) ==
  /\ pc[t] = "bt_ins_unlock"
  /\ mem' = [mem EXCEPT ![frame[t].pred].lock = tl_unlock(@, frame[t].right)]
  /\ pc' = [pc EXCEPT ![t] = "idle"]
  /\ UNCHANGED <<orec, locks, start, clock, snap, act, nsteps, g, mgr, frame, smr>>

\* remove_internal: tl_trylock_version(&ppred->lock, &ppred_ver, pright),
\* else goto retry
BT_rm_try(t) ==
  /\ pc[t] = "bt_rm_try"
  /\ LET f == frame[t]
         r == tl_trylock_version(mem[f.ppred].lock, f.ppred_ver, f.pright)
     IN /\ mem' = [mem EXCEPT ![f.ppred].lock = r.tl]
        /\ pc' = [pc EXCEPT ![t] = IF r.ok THEN "bt_rm_both" ELSE "bt_retry"]
  /\ UNCHANGED <<orec, locks, start, clock, snap, act, nsteps, g, mgr, frame, smr>>

\* remove_internal: tl_trylock_version_both(&pred->lock, &pred_ver)
BT_rm_both(t) ==
  /\ pc[t] = "bt_rm_both"
  /\ LET f == frame[t]
         r == tl_trylock_version_both(mem[f.pred].lock, f.pred_ver)
     IN /\ mem' = [mem EXCEPT ![f.pred].lock = r.tl]
        /\ pc' = [pc EXCEPT ![t] = IF r.ok THEN "bt_rm_unlink" ELSE "bt_rm_revert"]
  /\ UNCHANGED <<orec, locks, start, clock, snap, act, nsteps, g, mgr, frame, smr>>

\* remove_internal: tl_revert(&ppred->lock, pright); goto retry
BT_rm_revert(t) ==
  /\ pc[t] = "bt_rm_revert"
  /\ mem' = [mem EXCEPT ![frame[t].ppred].lock = tl_revert(@, frame[t].pright)]
  /\ pc' = [pc EXCEPT ![t] = "bt_retry"]
  /\ UNCHANGED <<orec, locks, start, clock, snap, act, nsteps, g, mgr, frame, smr>>

\* remove_internal: ppred->left or ppred->right = the other child of pred
BT_rm_unlink(t) ==
  /\ pc[t] = "bt_rm_unlink"
  /\ LET f == frame[t]
         other == IF f.right = 1 THEN mem[f.pred].left ELSE mem[f.pred].right
     IN mem' = IF f.pright = 1
               THEN [mem EXCEPT ![f.ppred].right = other]
               ELSE [mem EXCEPT ![f.ppred].left = other]
  /\ pc' = [pc EXCEPT ![t] = "bt_rm_unlock"]
  /\ UNCHANGED <<orec, locks, start, clock, snap, act, nsteps, g, mgr, frame, smr>>

\* remove_internal: tl_unlock(&ppred->lock, pright); reclaim(curr);
\* reclaim(pred); return curr->val
BT_rm_unlock(t) ==
  /\ pc[t] = "bt_rm_unlock"
  /\ mem' = [mem EXCEPT ![frame[t].ppred].lock = tl_unlock(@, frame[t].pright)]
  /\ pc' = [pc EXCEPT ![t] = "idle"]
  /\ UNCHANGED <<orec, locks, start, clock, snap, act, nsteps, g, mgr, frame, smr>>

\* ghost state of SpecUnlink:
\*   removed  the nodes on which a tl_trylock_version_both has succeeded
\*   pre      the word of the side of ppred just before the thread's
\*            tl_trylock_version on it succeeded
\*   refused  a trylock on a removed node has failed for a caller that had
\*            read the node's lock word with the side free
\*   reverted a tl_revert has run
GhostUnlink ==
  LET both == {t \in BThreads : pc[t] = "bt_rm_both" /\ pc'[t] = "bt_rm_unlink"}
      stale(t) ==
        \/ /\ pc[t] = "bt_ins_try" /\ pc'[t] = "bt_retry"
           /\ frame[t].pred \in hist.removed
           /\ frame[t].pred_ver[frame[t].right].version = frame[t].pred_ver[frame[t].right].ticket
        \/ /\ pc[t] = "bt_rm_try" /\ pc'[t] = "bt_retry"
           /\ frame[t].ppred \in hist.removed
           /\ frame[t].ppred_ver[frame[t].pright].version = frame[t].ppred_ver[frame[t].pright].ticket
        \/ /\ pc[t] = "bt_rm_both" /\ pc'[t] = "bt_rm_revert"
           /\ frame[t].pred \in hist.removed
           /\ \A s \in Sides : frame[t].pred_ver[s].version = frame[t].pred_ver[s].ticket
  IN hist' = [removed |-> hist.removed \cup {frame[t].pred : t \in both},
              pre |-> [t \in BThreads |->
                         IF pc[t] = "bt_rm_try" /\ pc'[t] = "bt_rm_both"
                         THEN mem[frame[t].ppred].lock[frame[t].pright]
                         ELSE hist.pre[t]],
              refused |-> hist.refused \/ \E t \in BThreads : stale(t),
              reverted |-> hist.reverted \/
                           \E t \in BThreads : pc[t] = "bt_rm_revert" /\ pc'[t] = "bt_retry"]

InitUnlink ==
  /\ pc = [t \in BThreads |-> "idle"]
  /\ \E v \in {0, U16 - 2} :
       mem = [n \in {root, node_min, node_max} |->
                IF n = root
                THEN [node_t(KEY_MAX, node_min, node_max) EXCEPT !.lock[0] = tl32(v, v)]
                ELSE IF n = node_min THEN node_t(KEY_MIN, nullptr, nullptr)
                ELSE node_t(KEY_MAX, nullptr, nullptr)]
  /\ frame = [t \in BThreads |-> BLocals]
  /\ nsteps = [t \in BThreads |-> 0]
  /\ hist = [removed |-> {}, pre |-> [t \in BThreads |-> tl32(0, 0)],
             refused |-> FALSE, reverted |-> FALSE]
  /\ orec = <<>> /\ locks = <<>> /\ start = <<>> /\ clock = 0 /\ snap = <<>>
  /\ act = NoAct /\ g = <<>> /\ mgr = <<>> /\ smr = <<>>

NextUnlink ==
  \/ \E t \in BThreads, k \in BKeys : BT_call(t, "insert", k) /\ GhostUnlink
  \/ \E t \in BThreads, k \in BKeys : BT_call(t, "remove", k) /\ GhostUnlink
  \/ \E t \in BThreads : BT_retry(t) /\ GhostUnlink
  \/ \E t \in BThreads : BT_ver(t) /\ GhostUnlink
  \/ \E t \in BThreads : BT_child(t) /\ GhostUnlink
  \/ \E t \in BThreads : BT_ins_try(t) /\ GhostUnlink
  \/ \E t \in BThreads : BT_ins_link(t) /\ GhostUnlink
  \/ \E t \in BThreads : BT_ins_unlock(t) /\ GhostUnlink
  \/ \E t \in BThreads : BT_rm_try(t) /\ GhostUnlink
  \/ \E t \in BThreads : BT_rm_both(t) /\ GhostUnlink
  \/ \E t \in BThreads : BT_rm_revert(t) /\ GhostUnlink
  \/ \E t \in BThreads : BT_rm_unlink(t) /\ GhostUnlink
  \/ \E t \in BThreads : BT_rm_unlock(t) /\ GhostUnlink

SpecUnlink == InitUnlink /\ [][NextUnlink]_vars

\* C40: a node on which tl_trylock_version_both has succeeded keeps the lock
\* word TLN_REMOVED, and no thread holds or takes a side of it afterwards;
\* when tl_trylock_version_both fails, tl_revert puts the side of the
\* grandparent's lock word back to what it was before the thread took it and
\* leaves the other side alone.
C40_RemovedForEver ==
  /\ [](\A n \in hist.removed :
          /\ mem[n].lock = TLN_REMOVED
          /\ \A t \in BThreads :
               /\ pc[t] \in {"bt_ins_link", "bt_ins_unlock"} => frame[t].pred # n
               /\ pc[t] \in {"bt_rm_both", "bt_rm_revert", "bt_rm_unlink", "bt_rm_unlock"}
                    => frame[t].ppred # n)
  /\ [][\A t \in BThreads :
          /\ (pc[t] = "bt_rm_both" /\ pc'[t] = "bt_rm_unlink") =>
               frame[t].pred \notin hist.removed
          /\ (pc[t] = "bt_rm_revert" /\ pc'[t] = "bt_retry") =>
               LET gp == frame[t].ppred
                   s == frame[t].pright
               IN /\ mem'[gp].lock[s] = hist.pre[t]
                  /\ mem'[gp].lock[1 - s] = mem[gp].lock[1 - s]]_vars

\* a trylock on a removed node has been refused to a caller that had read the
\* node's lock word when the side was free, and a revert has run
C40_Witness ==
  hist.removed # {} /\ hist.refused /\ hist.reverted

====
